---------------------------- MODULE Spec2Model ----------------------------
(***************************************************************************)
(* A model of the answer-routing workflow (python-app/app/ai_agent/main.py *)
(* and python-app/app/main.py) and of the intelligent field mapper         *)
(* (python-app/app/ai_agent/intelligent_mapper.py) of the Funeral Expenses *)
(* Payment backend.                                                        *)
(*                                                                         *)
(* Python strings are TLA+ strings; TLC evaluates Len, SubSeq and \o on    *)
(* them, so str.lower, str.strip, str.split, the "in" substring test and   *)
(* the regular expressions of the source are computed character by         *)
(* character.  Floats are binary64 values, rounded as the hardware does.   *)
(***************************************************************************)
EXTENDS Integers, Sequences, FiniteSets, TLC

VARIABLES
    pc,          \* idle, routing, tool, finalizing, done (workflow over), replied
    req,         \* the HTTP request being served: handler and use_web_search
    state,       \* the AgentState dict threaded through the workflow nodes
    rag_db,      \* the module global rag_db: "None" or "loaded"
    tavily_key,  \* whether TAVILY_API_KEY is configured
    router_out,  \* what the router's classification call did in this request
    calls,       \* the tool invocations of this request, in order
    reply,       \* the JSON body the handler returned for the last request
    mapio        \* the last call into the extraction code: its arguments and result

vars == <<pc, req, state, rag_db, tavily_key, router_out, calls, reply, mapio>>

wfvars == <<pc, req, state, rag_db, tavily_key, router_out, calls, reply>>

-----------------------------------------------------------------------------
(* Python string primitives *)

Char(s, i) == SubSeq(s, i, i)

UpperLetters == "ABCDEFGHIJKLMNOPQRSTUVWXYZ"

LowerLetters == "abcdefghijklmnopqrstuvwxyz"

Digits == "0123456789"

\* the characters of an alphabet, as one-character strings
Chars(alphabet) == {Char(alphabet, i) : i \in 1..Len(alphabet)}

LowerChars == Chars(LowerLetters)

UpperChars == Chars(UpperLetters)

DigitChars == Chars(Digits)

IsSpace(c) == c \in {" ", "\t", "\n"}

IsDigit(c) == c \in DigitChars

IsLower(c) == c \in LowerChars

\* \w of the re module on the ASCII inputs used here
IsWord(c) == c \in LowerChars \/ c \in UpperChars \/ c \in DigitChars \/ c = "_"

\* the lower-case letter of each upper-case letter
LowerOf ==
    [c \in UpperChars |->
        Char(LowerLetters, CHOOSE i \in 1..Len(UpperLetters) : Char(UpperLetters, i) = c)]

LowerChar(c) == IF c \in UpperChars THEN LowerOf[c] ELSE c

\* the upper-case letter of each lower-case letter
UpperOf ==
    [c \in LowerChars |->
        Char(UpperLetters, CHOOSE i \in 1..Len(LowerLetters) : Char(LowerLetters, i) = c)]

IsLetter(c) == c \in LowerChars \/ c \in UpperChars

UpperChar(c) == IF c \in LowerChars THEN UpperOf[c] ELSE c

RECURSIVE lowerFrom(_, _, _)
\* the characters i..j of s in lower case, one half after the other
lowerFrom(s, i, j) ==
    IF i > j THEN ""
    ELSE IF i = j THEN LowerChar(Char(s, i))
    ELSE lowerFrom(s, i, (i + j) \div 2) \o lowerFrom(s, ((i + j) \div 2) + 1, j)

\* str.lower
lower(s) == lowerFrom(s, 1, Len(s))

\* str.strip
strip(s) ==
    LET keep == {i \in 1..Len(s) : ~IsSpace(Char(s, i))}
    IN  IF keep = {} THEN ""
        ELSE SubSeq(s, CHOOSE i \in keep : \A j \in keep : i <= j,
                       CHOOSE i \in keep : \A j \in keep : i >= j)

\* sub in s
Contains(s, sub) ==
    \E i \in 1..(Len(s) - Len(sub) + 1) : SubSeq(s, i, i + Len(sub) - 1) = sub

\* s.startswith(p)
startswith(s, p) == Len(p) <= Len(s) /\ SubSeq(s, 1, Len(p)) = p

\* s.endswith(p)
endswith(s, p) == Len(p) <= Len(s) /\ SubSeq(s, Len(s) - Len(p) + 1, Len(s)) = p

\* where the words of s start: the characters that are no whitespace and
\* follow whitespace or nothing
WordStarts(s) ==
    {i \in 1..Len(s) :
        ~IsSpace(Char(s, i)) /\ (i = 1 \/ IsSpace(Char(s, i - 1)))}

\* the word of s that starts at position i
WordAt(s, i) ==
    SubSeq(s, i, i - 1 + Cardinality({j \in i..Len(s) :
                                        \A k \in i..j : ~IsSpace(Char(s, k))}))

\* the words that start at the given positions, from the left
WordsAt(s, starts) ==
    [n \in 1..Cardinality(starts) |->
        WordAt(s, CHOOSE i \in starts : Cardinality({j \in starts : j < i}) = n - 1)]

\* str.split(): the maximal runs of non-whitespace characters, in order
split(s) == WordsAt(s, WordStarts(s))

RECURSIVE JoinFrom(_, _)
\* ' '.join(words[i:])
JoinFrom(words, i) ==
    IF i > Len(words) THEN ""
    ELSE IF i = Len(words) THEN words[i]
    ELSE words[i] \o " " \o JoinFrom(words, i + 1)

join(words) == JoinFrom(words, 1)

-----------------------------------------------------------------------------
(* The answer workflow: AgentState, the collaborators, the three tools *)

\* a key the dict does not hold
Absent == "<absent>"

\* the fallback order of generate_final_response, which is also the tool set
fallbacks == <<"rag_tool", "direct_llm_tool", "web_search_tool">>

ToolNames == {fallbacks[i] : i \in 1..Len(fallbacks)}

\* the most chunks or search results a collaborator returns in the model
MaxDocs == 2

\* distances are scaled by 100: 0.45 is 45
poor_match_threshold == 45

threshold == 50

\* best_score when the index returns nothing (1.0)
no_docs_score == 100

\* the distances the vector index may report, around both thresholds
ScoreValues == {30, 45, 47, 50}

\* similarity_search_with_score results: distances in non-decreasing order
ScoreLists ==
    UNION {{s \in [1..n -> ScoreValues] : \A i \in 1..(n - 1) : s[i] <= s[i + 1]}
           : n \in 0..MaxDocs}

\* what a completion may answer; the service may answer with the empty text
Texts == {"", "You may be eligible.", "4"}

default_response ==
    "I'm sorry, I'm having trouble generating a response at the moment. Please try rephrasing your question or try again later."

error_response ==
    "I'm sorry, I'm having trouble processing your question. Please try again later."

\* what the collaborators do during one tool call
DefaultEnv ==
    [load |-> "ok", ctor_raises |-> FALSE,
     scored_raises |-> FALSE, scores |-> <<>>,
     plain_raises |-> FALSE, plain_n |-> 0,
     search_raises |-> FALSE, search_n |-> 0,
     llm_raises |-> FALSE, text |-> ""]

\* load_rag_database: the directory is missing, OpenAIEmbeddings or Chroma
\* raises before rag_db is assigned, rag_db.get() raises after, or all is well
LoadOutcomes == {"missing", "raise_early", "raise_late", "ok"}

LlmEnvs(e) ==
    {[e EXCEPT !.llm_raises = TRUE]} \cup {[e EXCEPT !.text = t] : t \in Texts}

RagEnvs(db) ==
    UNION {
        LET b == [DefaultEnv EXCEPT !.load = l]
        IN  {[b EXCEPT !.ctor_raises = TRUE]}
            \cup UNION {LlmEnvs([b EXCEPT !.scores = s]) : s \in ScoreLists}
            \cup {[b EXCEPT !.scored_raises = TRUE, !.plain_raises = TRUE]}
            \cup UNION {LlmEnvs([b EXCEPT !.scored_raises = TRUE, !.plain_n = n])
                        : n \in 0..MaxDocs}
        : l \in IF db = "None" THEN LoadOutcomes ELSE {"ok"}}

DirectEnvs ==
    {[DefaultEnv EXCEPT !.ctor_raises = TRUE]} \cup LlmEnvs(DefaultEnv)

WebEnvs ==
    {[DefaultEnv EXCEPT !.ctor_raises = TRUE],
     [DefaultEnv EXCEPT !.search_raises = TRUE]}
    \cup UNION {LlmEnvs([DefaultEnv EXCEPT !.search_n = n]) : n \in 0..MaxDocs}

\* load_rag_database runs only while rag_db is None
ToolEnvs(tool, db) ==
    IF tool = "rag_tool" THEN RagEnvs(db)
    ELSE IF tool = "direct_llm_tool" THEN DirectEnvs
    ELSE WebEnvs

\* the global rag_db after load_rag_database()
load_rag_database(db, e) ==
    IF e.load \in {"raise_late", "ok"} THEN "loaded" ELSE db

\* which step of load_rag_database raised: opening the index (OpenAIEmbeddings,
\* Chroma) or the verification read rag_db.get()
LoadRaised(db, e) ==
    IF db = "None" /\ e.load = "raise_early" THEN {"index_open"}
    ELSE IF db = "None" /\ e.load = "raise_late" THEN {"index_get"}
    ELSE {}

\* the except branch shared by the three tools
ToolFailed(st) == [st EXCEPT !.tool_failed = TRUE]

ToolSucceeded(st, text, src, conf) ==
    [st EXCEPT !.response = text, !.source = src, !.confidence = conf,
               !.tool_failed = FALSE]

\* the outcome of one tool call: the state it returns, the global it leaves,
\* the collaborators that raised, whether an exception left the function,
\* what became of the completion call (not_called, raised, returned) with the
\* text it returned, the chunks or results put in the context, and whether
\* the scored search returned, with the distances it returned
Outcome(st, db, raised, llm, text, docs) ==
    [state |-> st, rag_db |-> db, raised |-> raised, propagated |-> FALSE,
     llm |-> llm, text |-> text, docs |-> docs, scored |-> FALSE,
     scores |-> <<>>]

\* the outcome of a call in which similarity_search_with_score returned
\* chunks at the given distances
Scored(out, scores) == [out EXCEPT !.scored = TRUE, !.scores = scores]

\* the top match alone, whatever the distances of the others
FilteredDocs_top_only(scores) == IF scores = <<>> THEN <<>> ELSE <<1>>

\* the chunks (by rank) of the scored search that build the context
FilteredDocs(scores) ==
    LET under == SelectSeq([i \in 1..Len(scores) |-> i],
                           LAMBDA i : scores[i] < threshold)
    IN  IF under = <<>> /\ scores # <<>> THEN <<1>> ELSE under

use_rag_source(st, db, e) ==
    LET db1 == IF db = "None" THEN load_rag_database(db, e) ELSE db
        r0 == LoadRaised(db, e)
    IN
    IF db1 = "None" THEN Outcome(ToolFailed(st), db1, r0, "not_called", "", <<>>)
    ELSE IF e.ctor_raises
    THEN Outcome(ToolFailed(st), db1, r0 \cup {"llm_constructor"},
                 "not_called", "", <<>>)
    ELSE
    LET best_score == IF e.scores # <<>> THEN e.scores[1] ELSE no_docs_score
        gated == ~e.scored_raises /\ best_score > poor_match_threshold
        filtered_docs ==
            IF ~e.scored_raises THEN FilteredDocs(e.scores)
            ELSE IF e.plain_raises THEN <<>>
            ELSE [i \in 1..e.plain_n |-> i]
        r1 == r0 \cup (IF e.scored_raises THEN {"vector_search"} ELSE {})
                 \cup (IF e.scored_raises /\ e.plain_raises
                       THEN {"vector_search_fallback"} ELSE {})
        out ==
            IF gated THEN Outcome(ToolFailed(st), db1, r1, "not_called", "", <<>>)
            ELSE IF filtered_docs = <<>>
            THEN Outcome(ToolFailed(st), db1, r1, "not_called", "", <<>>)
            ELSE IF e.llm_raises
            THEN Outcome(ToolFailed(st), db1, r1 \cup {"llm_completion"},
                         "raised", "", filtered_docs)
            ELSE Outcome(ToolSucceeded(st, e.text, "rag", "0.9"), db1, r1,
                         "returned", e.text, filtered_docs)
    IN  IF e.scored_raises THEN out ELSE Scored(out, e.scores)

\* use_rag_source of app/main.py: no poor-match gate, top three as a last resort
FilteredDocsApp(scores) ==
    LET under == SelectSeq([i \in 1..Len(scores) |-> i],
                           LAMBDA i : scores[i] < threshold)
        n == IF Len(scores) < 3 THEN Len(scores) ELSE 3
    IN  IF under = <<>> /\ scores # <<>> THEN [i \in 1..n |-> i] ELSE under

use_rag_source_app(st, db, e) ==
    LET db1 == IF db = "None" THEN load_rag_database(db, e) ELSE db
        r0 == LoadRaised(db, e)
    IN
    IF db1 = "None" THEN Outcome(ToolFailed(st), db1, r0, "not_called", "", <<>>)
    ELSE IF e.ctor_raises
    THEN Outcome(ToolFailed(st), db1, r0 \cup {"llm_constructor"},
                 "not_called", "", <<>>)
    ELSE
    LET filtered_docs ==
            IF ~e.scored_raises THEN FilteredDocsApp(e.scores)
            ELSE IF e.plain_raises THEN <<>>
            ELSE [i \in 1..e.plain_n |-> i]
        r1 == r0 \cup (IF e.scored_raises THEN {"vector_search"} ELSE {})
                 \cup (IF e.scored_raises /\ e.plain_raises
                       THEN {"vector_search_fallback"} ELSE {})
        out ==
            IF filtered_docs = <<>>
            THEN Outcome(ToolFailed(st), db1, r1, "not_called", "", <<>>)
            ELSE IF e.llm_raises
            THEN Outcome(ToolFailed(st), db1, r1 \cup {"llm_completion"},
                         "raised", "", filtered_docs)
            ELSE Outcome(ToolSucceeded(st, e.text, "rag", "0.9"), db1, r1,
                         "returned", e.text, filtered_docs)
    IN  IF e.scored_raises THEN out ELSE Scored(out, e.scores)

\* use_direct_llm_tool with llm.invoke outside the try block
use_direct_llm_tool_unguarded(st, db, e) ==
    IF e.ctor_raises
    THEN Outcome(ToolFailed(st), db, {"llm_constructor"}, "not_called", "", <<>>)
    ELSE IF e.llm_raises
    THEN [Outcome(st, db, {"llm_completion"}, "raised", "", <<>>)
            EXCEPT !.propagated = TRUE]
    ELSE Outcome(ToolSucceeded(st, e.text, "direct_llm", "0.8"), db, {},
                 "returned", e.text, <<>>)

use_direct_llm_tool(st, db, e) ==
    IF e.ctor_raises
    THEN Outcome(ToolFailed(st), db, {"llm_constructor"}, "not_called", "", <<>>)
    ELSE IF e.llm_raises
    THEN Outcome(ToolFailed(st), db, {"llm_completion"}, "raised", "", <<>>)
    ELSE Outcome(ToolSucceeded(st, e.text, "direct_llm", "0.8"), db, {},
                 "returned", e.text, <<>>)

use_web_search_tool(st, db, tk, e) ==
    IF e.ctor_raises
    THEN Outcome(ToolFailed(st), db, {"llm_constructor"}, "not_called", "", <<>>)
    ELSE IF ~tk THEN Outcome(ToolFailed(st), db, {}, "not_called", "", <<>>)
    ELSE IF e.search_raises
    THEN Outcome(ToolFailed(st), db, {"web_search"}, "not_called", "", <<>>)
    ELSE IF e.search_n = 0
    THEN Outcome(ToolFailed(st), db, {}, "not_called", "", <<>>)
    ELSE IF e.llm_raises
    THEN Outcome(ToolFailed(st), db, {"llm_completion"}, "raised", "",
                 [i \in 1..e.search_n |-> i])
    ELSE Outcome(ToolSucceeded(st, e.text, "web", "0.7"), db, {},
                 "returned", e.text, [i \in 1..e.search_n |-> i])

\* the node (or fallback branch) that runs tool; handler tells which module's
\* use_rag_source is in play
RunTool(handler, tool, st, db, tk, e) ==
    IF tool = "rag_tool"
    THEN (IF handler = "chat" THEN use_rag_source_app(st, db, e)
          ELSE use_rag_source(st, db, e))
    ELSE IF tool = "direct_llm_tool" THEN use_direct_llm_tool(st, db, e)
    ELSE use_web_search_tool(st, db, tk, e)

\* one entry of the invocation log
Call(tool, phase, pre, out) ==
    [tool |-> tool, phase |-> phase, pre |-> pre, post |-> out.state,
     raised |-> out.raised, propagated |-> out.propagated,
     llm |-> out.llm, text |-> out.text, docs |-> out.docs,
     scored |-> out.scored, scores |-> out.scores]

\* what the router's classification call may do
RouterTexts == {"rag", "web_search", "direct_llm", " RAG\n", "\"rag\""}

RouterOutcomes ==
    {[raises |-> TRUE, content |-> ""]}
    \cup {[raises |-> FALSE, content |-> c] : c \in RouterTexts}

NoRouterCall == [raises |-> FALSE, content |-> Absent]

\* source_router without the defaults of the else and except branches
source_router_no_default(st, o) ==
    IF o.raises THEN st
    ELSE LET source == lower(strip(o.content))
         IN  IF source = "rag" THEN [st EXCEPT !.selected_tool = "rag_tool"]
             ELSE IF source = "web_search"
             THEN [st EXCEPT !.selected_tool = "web_search_tool"]
             ELSE IF source = "direct_llm"
             THEN [st EXCEPT !.selected_tool = "direct_llm_tool"]
             ELSE st

source_router(st, o) ==
    IF o.raises THEN [st EXCEPT !.selected_tool = "direct_llm_tool"]
    ELSE LET source == lower(strip(o.content))
         IN  IF source = "rag" THEN [st EXCEPT !.selected_tool = "rag_tool"]
             ELSE IF source = "web_search"
             THEN [st EXCEPT !.selected_tool = "web_search_tool"]
             ELSE IF source = "direct_llm"
             THEN [st EXCEPT !.selected_tool = "direct_llm_tool"]
             ELSE [st EXCEPT !.selected_tool = "direct_llm_tool"]

\* state.get("selected_tool", default)
SelectedOr(st, default) ==
    IF st.selected_tool = Absent THEN default ELSE st.selected_tool

RECURSIVE TryFallbacks_goes_on(_, _, _, _, _, _, _, _)
\* the for loop without the return of line 1155: the tools after the one that
\* succeeded are run as well
TryFallbacks_goes_on(handler, st, db, tk, fbs, envs, i, log) ==
    IF i > Len(fbs)
    THEN [state |-> st, rag_db |-> db, calls |-> log, found |-> FALSE,
          propagated |-> FALSE]
    ELSE
    LET fallback_tool == fbs[i]
        fallback_state == [st EXCEPT !.selected_tool = fallback_tool,
                                     !.tool_failed = FALSE]
        out == RunTool(handler, fallback_tool, fallback_state, db, tk,
                       envs[fallback_tool])
        log1 == Append(log, Call(fallback_tool, "fallback", fallback_state, out))
    IN
    IF ~out.state.tool_failed /\ out.state.response # Absent
    THEN [TryFallbacks_goes_on(handler,
              [st EXCEPT !.response = out.state.response, !.tool_failed = FALSE],
              out.rag_db, tk, fbs, envs, i + 1, log1) EXCEPT !.found = TRUE]
    ELSE TryFallbacks_goes_on(handler, st, out.rag_db, tk, fbs, envs, i + 1, log1)

RECURSIVE TryFallbacks(_, _, _, _, _, _, _, _)
\* the for loop of generate_final_response over the tools left in fbs[i..]
TryFallbacks(handler, st, db, tk, fbs, envs, i, log) ==
    IF i > Len(fbs)
    THEN [state |-> st, rag_db |-> db, calls |-> log, found |-> FALSE,
          propagated |-> FALSE]
    ELSE
    LET fallback_tool == fbs[i]
        original_tool == SelectedOr(st, "unknown")
        fallback_state == [st EXCEPT !.selected_tool = fallback_tool,
                                     !.tool_failed = FALSE]
        out == RunTool(handler, fallback_tool, fallback_state, db, tk,
                       envs[fallback_tool])
        log1 == Append(log, Call(fallback_tool, "fallback", fallback_state, out))
    IN
    IF out.propagated
    THEN [state |-> st, rag_db |-> out.rag_db, calls |-> log1, found |-> FALSE,
          propagated |-> TRUE]
    ELSE IF ~out.state.tool_failed /\ out.state.response # Absent
    THEN [state |-> [st EXCEPT
                       !.response = out.state.response,
                       !.source = fallback_tool \o " (fallback from "
                                    \o original_tool \o ")",
                       !.tool_failed = FALSE],
          rag_db |-> out.rag_db, calls |-> log1, found |-> TRUE,
          propagated |-> FALSE]
    ELSE TryFallbacks(handler, st, out.rag_db, tk, fbs, envs, i + 1, log1)

\* the fallback list with the original tool left in
FallbacksWithout_keeps(original_tool) == fallbacks

\* fallbacks with original_tool removed (list.remove, ValueError ignored)
FallbacksWithout(original_tool) ==
    SelectSeq(fallbacks, LAMBDA t : t # original_tool)

\* the default answer with the failure flag left set
DefaultAnswer_stays_failed(st) ==
    [st EXCEPT !.response = default_response, !.source = "default_fallback"]

DefaultAnswer(st) ==
    [st EXCEPT !.response = default_response, !.source = "default_fallback",
               !.tool_failed = FALSE]

\* generate_final_response without its closing default answer
generate_final_response_no_default(handler, st, db, tk, envs) ==
    IF st.response # Absent /\ st.tool_failed = FALSE
    THEN [state |-> st, rag_db |-> db, calls |-> <<>>, found |-> FALSE,
          propagated |-> FALSE]
    ELSE IF st.tool_failed
    THEN TryFallbacks(handler, st, db, tk,
                      FallbacksWithout(SelectedOr(st, "unknown")), envs, 1, <<>>)
    ELSE [state |-> st, rag_db |-> db, calls |-> <<>>, found |-> FALSE,
          propagated |-> FALSE]

\* generate_final_response that enters the fallback loop whatever tool_failed says
generate_final_response_always_retries(handler, st, db, tk, envs) ==
    LET tried == TryFallbacks(handler, st, db, tk,
                              FallbacksWithout(SelectedOr(st, "unknown")),
                              envs, 1, <<>>)
    IN  IF tried.found \/ tried.propagated THEN tried
        ELSE IF tried.state.tool_failed \/ tried.state.response = Absent
        THEN [tried EXCEPT !.state = DefaultAnswer(tried.state)]
        ELSE tried

generate_final_response(handler, st, db, tk, envs) ==
    IF st.response # Absent /\ st.tool_failed = FALSE
    THEN [state |-> st, rag_db |-> db, calls |-> <<>>, found |-> FALSE,
          propagated |-> FALSE]
    ELSE
    LET tried ==
            IF st.tool_failed
            THEN TryFallbacks(handler, st, db, tk,
                              FallbacksWithout(SelectedOr(st, "unknown")),
                              envs, 1, <<>>)
            ELSE [state |-> st, rag_db |-> db, calls |-> <<>>, found |-> FALSE,
                  propagated |-> FALSE]
    IN  IF tried.found \/ tried.propagated THEN tried
        ELSE IF tried.state.tool_failed \/ tried.state.response = Absent
        THEN [tried EXCEPT !.state = DefaultAnswer(tried.state)]
        ELSE tried

-----------------------------------------------------------------------------
(* The HTTP handlers and the workflow nodes as actions *)

NoReply == [success |-> FALSE, response |-> Absent, source |-> Absent]

\* initial_state of both handlers; "input", "chat_history" and
\* "intermediate_steps" are not read by the control flow modelled here
initial_state ==
    [selected_tool |-> Absent, response |-> Absent, source |-> Absent,
     confidence |-> Absent, tool_failed |-> FALSE]

Init ==
    /\ pc = "idle"
    /\ req \in [handler : {"agent_chat", "chat"}, use_web_search : {FALSE}]
    /\ state = initial_state
    /\ rag_db \in {"None", "loaded"}
    /\ tavily_key \in BOOLEAN
    /\ router_out = NoRouterCall
    /\ calls = <<>>
    /\ reply = NoReply
    /\ mapio = <<>>

\* agent_chat of ai_agent/main.py up to workflow.invoke
AgentChatRequest ==
    /\ pc \in {"idle", "replied"}
    /\ req.handler = "agent_chat"
    /\ \E ws \in BOOLEAN :
        /\ req' = [req EXCEPT !.use_web_search = ws]
        /\ state' = IF ws /\ tavily_key
                    THEN [initial_state EXCEPT !.selected_tool = "web_search_tool"]
                    ELSE initial_state
    /\ pc' = "routing"
    /\ router_out' = NoRouterCall
    /\ calls' = <<>>
    /\ reply' = NoReply
    /\ UNCHANGED <<rag_db, tavily_key, mapio>>

\* chat of app/main.py up to workflow.invoke: an explicit web-search request is
\* first served by use_web_search_tool directly
ChatRequest ==
    /\ pc \in {"idle", "replied"}
    /\ req.handler = "chat"
    /\ \E ws \in BOOLEAN :
       \E e \in IF ws /\ tavily_key THEN WebEnvs ELSE {DefaultEnv} :
        LET direct == [initial_state EXCEPT !.selected_tool = "web_search_tool"]
            out == use_web_search_tool(direct, rag_db, tavily_key, e)
            ok == ~out.state.tool_failed /\ out.state.response # Absent
        IN
        /\ req' = [req EXCEPT !.use_web_search = ws]
        /\ IF ws /\ tavily_key
           THEN /\ calls' = <<Call("web_search_tool", "direct", direct, out)>>
                /\ IF ok
                   THEN /\ reply' = [success |-> TRUE,
                                     response |-> out.state.response,
                                     source |-> "web"]
                        /\ pc' = "replied"
                   ELSE /\ reply' = NoReply
                        /\ pc' = "routing"
           ELSE /\ calls' = <<>>
                /\ reply' = NoReply
                /\ pc' = "routing"
    /\ state' = initial_state
    /\ router_out' = NoRouterCall
    /\ UNCHANGED <<rag_db, tavily_key, mapio>>

\* the source_router node
Route ==
    /\ pc = "routing"
    /\ \E o \in RouterOutcomes :
        /\ state' = source_router(state, o)
        /\ router_out' = o
    /\ pc' = "tool"
    /\ UNCHANGED <<req, rag_db, tavily_key, calls, reply, mapio>>

\* the conditional edge out of source_router and the tool node it leads to
ExecTool ==
    /\ pc = "tool"
    /\ LET tool == SelectedOr(state, "direct_llm_tool")
       IN  \E e \in ToolEnvs(tool, rag_db) :
            LET out == RunTool(req.handler, tool, state, rag_db, tavily_key, e)
            IN  /\ state' = out.state
                /\ rag_db' = out.rag_db
                /\ calls' = Append(calls, Call(tool, "selected", state, out))
                /\ pc' = IF out.propagated THEN "done" ELSE "finalizing"
    /\ UNCHANGED <<req, tavily_key, router_out, reply, mapio>>

\* the generate_final_response node
Finalize ==
    /\ pc = "finalizing"
    /\ LET original == SelectedOr(state, "unknown")
           needed == {t \in ToolNames : state.tool_failed /\ t # original}
           EnvsFor(t) == IF t \in needed THEN ToolEnvs(t, rag_db) ELSE {DefaultEnv}
       IN  \E er \in EnvsFor("rag_tool"), ed \in EnvsFor("direct_llm_tool"),
              ew \in EnvsFor("web_search_tool") :
            LET envs == [t \in ToolNames |->
                           IF t = "rag_tool" THEN er
                           ELSE IF t = "direct_llm_tool" THEN ed ELSE ew]
            IN
            LET res == generate_final_response(req.handler, state, rag_db,
                                               tavily_key, envs)
            IN  /\ state' = res.state
                /\ rag_db' = res.rag_db
                /\ calls' = calls \o res.calls
    /\ pc' = "done"
    /\ UNCHANGED <<req, tavily_key, router_out, reply, mapio>>

\* whether workflow.invoke raised
WorkflowRaised == \E i \in 1..Len(calls) : calls[i].propagated

\* result.get("response", "") and result.get("source", "unknown"), or the
\* except branch of the handler
HandlerReply ==
    IF WorkflowRaised
    THEN [success |-> TRUE, response |-> error_response, source |-> "error"]
    ELSE [success |-> TRUE,
          response |-> IF state.response = Absent THEN "" ELSE state.response,
          source |-> IF state.source = Absent THEN "unknown" ELSE state.source]

\* agent_chat after workflow.invoke
AgentChatReply ==
    /\ pc = "done"
    /\ req.handler = "agent_chat"
    /\ reply' = HandlerReply
    /\ pc' = "replied"
    /\ UNCHANGED <<req, state, rag_db, tavily_key, router_out, calls, mapio>>

\* chat after workflow.invoke
ChatReply ==
    /\ pc = "done"
    /\ req.handler = "chat"
    /\ reply' = HandlerReply
    /\ pc' = "replied"
    /\ UNCHANGED <<req, state, rag_db, tavily_key, router_out, calls, mapio>>

Next ==
    \/ AgentChatRequest
    \/ ChatRequest
    \/ Route
    \/ ExecTool
    \/ Finalize
    \/ AgentChatReply
    \/ ChatReply

Spec == Init /\ [][Next]_vars

\* the step workflow.invoke takes out of a node of the compiled graph
NodeStep ==
    /\ pc \in {"routing", "tool", "finalizing"}
    /\ pc' \in {"tool", "finalizing", "done"}

\* workflow.invoke runs the compiled graph node by node to its END (1199-1204)
\* and no node waits for anything: a node that is entered is left
SpecRun == Spec /\ WF_pc(NodeStep)

-----------------------------------------------------------------------------
(* Claims about the answer workflow, checked under Spec *)

\* the calls the workflow made (the chat handler's direct web search is not one)
WorkflowCalls == SelectSeq(calls, LAMBDA c : c.phase # "direct")

Succeeded(c) == ~c.post.tool_failed /\ c.post.response # Absent

LastCall == calls[Len(calls)]

\* C1 as stated: the state generate_final_response returns always holds a
\* non-empty response and tool_failed = false.
C1_FinalResponseNonEmpty ==
    pc = "done" =>
        /\ state.response # Absent
        /\ state.response # ""
        /\ state.tool_failed = FALSE

\* C1 as amended: the state generate_final_response returns has tool_failed =
\* false and a response that is either the fixed apology (source
\* default_fallback) or exactly the text the completion call of the tool that
\* succeeded returned, so it is empty exactly when that completion was empty.
C1_FinalResponseSet ==
    pc = "done" =>
        /\ ~WorkflowRaised
        /\ state.tool_failed = FALSE
        /\ state.response # Absent
        /\ \/ /\ state.source = "default_fallback"
              /\ state.response = default_response
              /\ state.response # ""
           \/ /\ state.source # "default_fallback"
              /\ Succeeded(LastCall)
              /\ LastCall.llm = "returned"
              /\ state.response = LastCall.text

\* a run in which a fallback tool answered with the empty text
C1_Witness ==
    /\ pc = "done"
    /\ state.response = ""
    /\ state.source = "web_search_tool (fallback from rag_tool)"

\* C2: when the selected tool and both fallback tools fail, the workflow ends
\* without raising, with the fixed apology, source default_fallback and
\* tool_failed = false.
C2_AllFailedGivesApology ==
    (pc = "done" /\ \A i \in 1..Len(WorkflowCalls) :
                       WorkflowCalls[i].post.tool_failed) =>
        /\ ~WorkflowRaised
        /\ Len(WorkflowCalls) = 3
        /\ {WorkflowCalls[i].tool : i \in 1..3} = ToolNames
        /\ state.response =
             "I'm sorry, I'm having trouble generating a response at the moment. Please try rephrasing your question or try again later."
        /\ state.source = "default_fallback"
        /\ state.tool_failed = FALSE

\* all three tools were tried and failed, the web search for want of a key
C2_Witness ==
    /\ pc = "done"
    /\ ~tavily_key
    /\ Len(WorkflowCalls) = 3
    /\ \A i \in 1..3 : WorkflowCalls[i].post.tool_failed
    /\ state.source = "default_fallback"

\* the order in which Finalizing must try the tools once the selected one failed
C3_ExpectedOrder(selected) ==
    IF selected = "rag_tool" THEN <<"direct_llm_tool", "web_search_tool">>
    ELSE IF selected = "direct_llm_tool" THEN <<"rag_tool", "web_search_tool">>
    ELSE <<"rag_tool", "direct_llm_tool">>

\* C3: when the tool selected by Routing fails, Finalizing tries the other two
\* tools in the order rag_tool, direct_llm_tool, web_search_tool without the
\* selected one, stops at the first that succeeds, never tries the selected
\* tool again and tags source "<fallback_tool> (fallback from <original_tool>)".
C3_FallbackOrder ==
    (pc = "done" /\ WorkflowCalls[1].post.tool_failed) =>
        LET w == WorkflowCalls
            selected == w[1].tool
            fb == SubSeq(w, 2, Len(w))
            order == C3_ExpectedOrder(selected)
        IN  /\ selected = state.selected_tool
            /\ Len(fb) \in 1..2
            /\ \A i \in 1..Len(fb) :
                  /\ fb[i].tool = order[i]
                  /\ fb[i].tool # selected
                  /\ fb[i].phase = "fallback"
            /\ \A i \in 1..(Len(fb) - 1) : ~Succeeded(fb[i])
            /\ Len(fb) < 2 => Succeeded(fb[Len(fb)])
            /\ Succeeded(fb[Len(fb)]) =>
                  /\ state.source = fb[Len(fb)].tool \o " (fallback from "
                                      \o selected \o ")"
                  /\ state.response = fb[Len(fb)].post.response
                  /\ state.tool_failed = FALSE

\* rag_tool was selected and failed, direct_llm_tool failed, web search answered
C3_Witness ==
    /\ pc = "done"
    /\ Len(WorkflowCalls) = 3
    /\ WorkflowCalls[1].tool = "rag_tool"
    /\ WorkflowCalls[2].tool = "direct_llm_tool"
    /\ WorkflowCalls[3].tool = "web_search_tool"
    /\ state.source = "web_search_tool (fallback from rag_tool)"
    /\ state.response = "4"

\* C4: when the selected tool succeeded, Finalizing returns the state with
\* response, source and confidence as that tool wrote them and calls no tool.
C4_SuccessPassesThrough ==
    (pc = "done" /\ Succeeded(WorkflowCalls[1])) =>
        LET c == WorkflowCalls[1]
        IN  /\ Len(WorkflowCalls) = 1
            /\ state = c.post
            /\ state.response = c.text
            /\ <<c.tool, state.source, state.confidence>> \in
                 {<<"rag_tool", "rag", "0.9">>,
                  <<"direct_llm_tool", "direct_llm", "0.8">>,
                  <<"web_search_tool", "web", "0.7">>}

\* the selected rag tool answered and Finalizing has run
C4_Witness ==
    /\ pc = "done"
    /\ Len(WorkflowCalls) = 1
    /\ state.source = "rag"
    /\ state.response = "You may be eligible."

\* C5: after Routing selected_tool is one of the three tool names, and it is
\* direct_llm_tool whenever the classification call raised or answered
\* anything but rag, direct_llm or web_search (trimmed and lower-cased).
C5_RouterSelectsOneTool ==
    pc = "tool" =>
        /\ state.selected_tool \in {"rag_tool", "direct_llm_tool", "web_search_tool"}
        /\ router_out.raises => state.selected_tool = "direct_llm_tool"
        /\ (~router_out.raises
            /\ lower(strip(router_out.content)) \notin {"rag", "direct_llm", "web_search"})
               => state.selected_tool = "direct_llm_tool"
        /\ (~router_out.raises /\ router_out.content \in {"rag", " RAG\n"})
               => state.selected_tool = "rag_tool"
        /\ (~router_out.raises /\ router_out.content = "web_search")
               => state.selected_tool = "web_search_tool"

\* the classification call answered "rag" in quotes and direct_llm_tool was
\* selected, replacing the web search preselected by the handler
C5_Witness ==
    /\ pc = "tool"
    /\ router_out.content = "\"rag\""
    /\ req.use_web_search /\ tavily_key
    /\ req.handler = "agent_chat"
    /\ state.selected_tool = "direct_llm_tool"

\* C6 as stated: every exception of a collaborator call stays inside the tool
\* and ends the call with tool_failed = true, response and source untouched.
C6_EveryRaiseFailsTheTool ==
    \A i \in 1..Len(calls) :
        /\ ~calls[i].propagated
        /\ calls[i].raised # {} =>
              /\ calls[i].post.tool_failed
              /\ calls[i].post.response = calls[i].pre.response
              /\ calls[i].post.source = calls[i].pre.source

\* C6 as amended: no exception of a collaborator call leaves a tool; an
\* exception of the LLM constructor, of the completion, of the web search, of
\* the unscored retry search or of opening the index ends the call with
\* tool_failed = true, and every failed call leaves response and source as
\* they were.  An exception of similarity_search_with_score is answered with
\* the unscored similarity_search, and one of the index's verification read
\* leaves the opened index in use: after either the tool may still answer.
C6_RaisesAreContained ==
    \A i \in 1..Len(calls) :
        /\ ~calls[i].propagated
        /\ calls[i].raised \cap {"llm_constructor", "llm_completion", "web_search",
                                 "vector_search_fallback", "index_open"} # {}
              => calls[i].post.tool_failed
        /\ calls[i].post.tool_failed =>
              /\ calls[i].post.response = calls[i].pre.response
              /\ calls[i].post.source = calls[i].pre.source
        /\ (calls[i].raised # {} /\ ~calls[i].post.tool_failed) =>
              /\ calls[i].tool = "rag_tool"
              /\ calls[i].raised \subseteq {"vector_search", "index_get"}

\* a completion raised inside a tool and a scored search raised inside a rag
\* call that went on to answer
C6_Witness ==
    /\ \E i \in 1..Len(calls) :
          /\ "llm_completion" \in calls[i].raised
          /\ calls[i].post.tool_failed
    /\ \E i \in 1..Len(calls) :
          /\ "vector_search" \in calls[i].raised
          /\ ~calls[i].post.tool_failed

\* C7: a request that sets use_web_search while no web-search credential is
\* configured ends with an explicit failure; no other source answers it.
C7_ExplicitWebSearchFails ==
    (pc = "replied" /\ req.use_web_search /\ ~tavily_key) =>
        \/ reply.success = FALSE
        \/ reply.source = "error"

-----------------------------------------------------------------------------
(* The intelligent field mapper: the form schema and text normalisation *)

\* re.sub(r'[^\w\s]', ' ', s)
RECURSIVE SubNonWord(_, _, _)
SubNonWord(s, i, j) ==
    IF i > j THEN ""
    ELSE IF i = j
    THEN (IF IsWord(Char(s, i)) \/ IsSpace(Char(s, i)) THEN Char(s, i) ELSE " ")
    ELSE SubNonWord(s, i, (i + j) \div 2) \o SubNonWord(s, ((i + j) \div 2) + 1, j)

\* re.sub(r'\s+', ' ', s), for the characters i..j of s: a run of whitespace
\* leaves one space, where it starts
RECURSIVE CollapseSpaces(_, _, _)
CollapseSpaces(s, i, j) ==
    IF i > j THEN ""
    ELSE IF i = j
    THEN (IF ~IsSpace(Char(s, i)) THEN Char(s, i)
          ELSE IF i > 1 /\ IsSpace(Char(s, i - 1)) THEN "" ELSE " ")
    ELSE CollapseSpaces(s, i, (i + j) \div 2)
             \o CollapseSpaces(s, ((i + j) \div 2) + 1, j)

\* the text with its non-word characters replaced
Substituted(text) == SubNonWord(text, 1, Len(text))

\* the text with its runs of whitespace collapsed
Collapsed(text) == CollapseSpaces(text, 1, Len(text))

_normalize_text(text) == Collapsed(Substituted(strip(lower(text))))

\* the schema _load_form_schema returns when no form_schema.json is present
form_schema ==
    [sections |-> <<
        [id |-> "evidence-documentation",
         title |-> "Evidence and documentation",
         semantic_context |-> <<"evidence", "documentation", "upload", "documents">>,
         fields |-> <<
            [name |-> "evidence", label |-> "Documents you can provide",
             type |-> "checkbox",
             semantic_context |-> <<"document types", "evidence types">>],
            [name |-> "relationshipToDeceased",
             label |-> "What is your relationship to the deceased?",
             type |-> "radio",
             semantic_context |-> <<"relationship", "relation", "connection", "family">>] >>],
        [id |-> "about-deceased",
         title |-> "About the person who died",
         semantic_context |-> <<"deceased", "dead person", "death", "person who died">>,
         fields |-> <<
            [name |-> "deceasedFirstName", label |-> "First name", type |-> "text",
             semantic_context |->
                <<"deceased first name", "dead person's first name", "given name">>],
            [name |-> "deceasedLastName", label |-> "Last name", type |-> "text",
             semantic_context |->
                <<"deceased last name", "dead person's surname", "family name">>],
            [name |-> "deceasedDateOfBirth", label |-> "Date of birth", type |-> "date",
             semantic_context |->
                <<"deceased birth date", "dead person's birthday", "dob", "born on">>],
            [name |-> "deceasedDateOfDeath", label |-> "Date of death", type |-> "date",
             semantic_context |->
                <<"deceased death date", "date of passing", "died on", "dod">>],
            [name |-> "relationshipToDeceased", label |-> "Relationship to deceased",
             type |-> "radio",
             semantic_context |-> <<"relationship", "relation", "connection", "family">>] >>],
        [id |-> "funeral-details",
         title |-> "Funeral details",
         semantic_context |-> <<"funeral", "service", "ceremony", "burial", "cremation">>,
         fields |-> <<
            [name |-> "funeralDirector", label |-> "Funeral director", type |-> "text",
             semantic_context |-> <<"funeral company", "funeral home", "undertaker">>],
            [name |-> "funeralCost", label |-> "Funeral cost", type |-> "number",
             semantic_context |->
                <<"cost", "price", "expense", "bill", "invoice amount", "total cost">>],
            [name |-> "funeralDate", label |-> "Funeral date", type |-> "date",
             semantic_context |->
                <<"service date", "ceremony date", "when funeral occurred">>] >>] >>]

\* _normalize_text of every phrase of a sequence
NormalizedAll(phrases) == [k \in 1..Len(phrases) |-> _normalize_text(phrases[k])]

\* the schema with, next to each name, label, title and semantic context, what
\* _normalize_text returns for it: the mapper normalises these on every call
\* and the schema never changes, so the model normalises them once
Normalized(schema) ==
    [sections |->
        [i \in 1..Len(schema.sections) |->
            LET section == schema.sections[i]
            IN  [id |-> section.id,
                 title |-> section.title,
                 norm_title |-> _normalize_text(section.title),
                 semantic_context |-> section.semantic_context,
                 norm_context |-> NormalizedAll(section.semantic_context),
                 fields |->
                    [j \in 1..Len(section.fields) |->
                        LET field == section.fields[j]
                        IN  [name |-> field.name,
                             norm_name |-> _normalize_text(field.name),
                             norm_label |-> _normalize_text(field.label),
                             type |-> field.type,
                             norm_context |-> NormalizedAll(field.semantic_context)]]]]]

\* self.form_schema as the mapper's methods read it
schema == Normalized(form_schema)

\* the section ids each document type is tied to in _section_matches_document_type
document_type_section_mappings ==
    << <<"death_certificate", {"about-deceased"}>>,
       <<"funeral_invoice", {"funeral-details"}>>,
       <<"benefit_letter", {"benefits-information"}>>,
       <<"relationship_proof", {"about-deceased"}>> >>

\* a document type of None is the empty string: both are falsy in every test
_section_matches_document_type(section, document_type) ==
    IF document_type = "" THEN TRUE
    ELSE LET document_type_lower == lower(document_type)
         IN  \/ \E i \in 1..Len(section.semantic_context) :
                    \/ Contains(document_type_lower, lower(section.semantic_context[i]))
                    \/ Contains(lower(section.semantic_context[i]), document_type_lower)
             \/ \E i \in 1..Len(document_type_section_mappings) :
                    /\ Contains(document_type_lower, document_type_section_mappings[i][1])
                    /\ section.id \in document_type_section_mappings[i][2]

-----------------------------------------------------------------------------
(* The field mapper: value types *)

\* s[i - 1] as a one-character string, "" past either end
CharAt(s, i) == IF i \in 1..Len(s) THEN Char(s, i) ELSE ""

\* \d{n} matches at position i
DigitsAt(s, i, n) == \A j \in i..(i + n - 1) : IsDigit(CharAt(s, j))

\* \s{n} matches at position i
SpacesAt(s, i, n) == \A j \in i..(i + n - 1) : IsSpace(CharAt(s, j))

\* [a-z]{n} matches at position i
LowersAt(s, i, n) == \A j \in i..(i + n - 1) : IsLower(CharAt(s, j))

\* the literal w matches at position i
LiteralAt(s, i, w) == i >= 1 /\ i + Len(w) - 1 <= Len(s) /\ SubSeq(s, i, i + Len(w) - 1) = w

\* re.search(r'\d{1,2}<sep>\d{1,2}<sep>\d{2,4}', s)
SearchNumericDate(s, sep) ==
    \E i \in 1..Len(s) :
        /\ IsDigit(Char(s, i))
        /\ \E a \in 1..2 :
            /\ DigitsAt(s, i, a)
            /\ LiteralAt(s, i + a, sep)
            /\ \E b \in 1..2 :
                /\ DigitsAt(s, i + a + 1, b)
                /\ LiteralAt(s, i + a + 1 + b, sep)
                /\ \E c \in 2..4 : DigitsAt(s, i + a + b + 2, c)

Months == {"jan", "feb", "mar", "apr", "may", "jun",
           "jul", "aug", "sep", "oct", "nov", "dec"}

\* re.search(r'\d{1,2}\s+(?:jan|...|dec)[a-z]*\s+\d{2,4}', s)
SearchWrittenDate(s) ==
    \E i \in 1..Len(s) :
        /\ IsDigit(Char(s, i))
        /\ \E a \in 1..2 :
            /\ DigitsAt(s, i, a)
            /\ \E p \in 1..Len(s) :
                /\ SpacesAt(s, i + a, p)
                /\ \E mon \in Months : LiteralAt(s, i + a + p, mon)
                /\ \E q \in 0..Len(s) :
                    /\ LowersAt(s, i + a + p + 3, q)
                    /\ \E r \in 1..Len(s) :
                        /\ SpacesAt(s, i + a + p + 3 + q, r)
                        /\ \E c \in 2..4 : DigitsAt(s, i + a + p + 3 + q + r, c)

\* the currency signs of money_patterns that an ASCII value can hold
CurrencySigns == {"$"}

\* re.search(r'<sign>\s*\d+(?:\.\d{2})?', s)
SearchSignedAmount(s) ==
    \E i \in 1..Len(s) :
        /\ Char(s, i) \in CurrencySigns
        /\ \E p \in 0..Len(s) : SpacesAt(s, i + 1, p) /\ DigitsAt(s, i + 1 + p, 1)

CurrencyWords == {"pounds", "gbp", "usd", "eur"}

\* re.search(r'\d+(?:\.\d{2})?\s*(?:pounds|gbp|usd|eur)', s)
SearchWordedAmount(s) ==
    \E i \in 1..Len(s) :
        /\ IsDigit(Char(s, i))
        /\ \E d \in {0, 3} :
            /\ d = 3 => LiteralAt(s, i + 1, ".") /\ DigitsAt(s, i + 2, 2)
            /\ \E p \in 0..Len(s) :
                /\ SpacesAt(s, i + 1 + d, p)
                /\ \E w \in CurrencyWords : LiteralAt(s, i + 1 + d + p, w)

AddressTerms == {"street", "road", "avenue", "lane", "drive", "way", "boulevard", "court"}

relationship_terms ==
    {"husband", "wife", "spouse", "partner", "child", "son", "daughter", "parent",
     "father", "mother", "brother", "sister", "sibling"}

\* an extracted value: a dict with 'value' and maybe 'reasoning', or a bare string
DictValue(v, r) == [kind |-> "dict", value |-> v, reasoning |-> r]

StrValue(v) == [kind |-> "str", value |-> v, reasoning |-> Absent]

_infer_value_type(value) ==
    LET v == lower(value.value)
    IN  IF \/ SearchNumericDate(v, "/")
           \/ SearchNumericDate(v, "-")
           \/ SearchWrittenDate(v)
        THEN "date"
        ELSE IF SearchSignedAmount(v) \/ SearchWordedAmount(v) THEN "monetary"
        ELSE IF \E term \in AddressTerms : Contains(v, term) THEN "address"
        ELSE IF \E term \in relationship_terms : Contains(v, term) THEN "relationship"
        ELSE "text"

type_compatibility(value_type) ==
    CASE value_type = "date" -> {"date"}
      [] value_type = "monetary" -> {"number", "text"}
      [] value_type = "address" -> {"text", "textarea"}
      [] value_type = "relationship" -> {"text", "radio", "select"}
      [] value_type = "text" -> {"text", "textarea", "radio", "select", "checkbox"}
      [] OTHER -> {}

_field_type_matches_value_type(field, value_type) ==
    field.type \in type_compatibility(value_type)

-----------------------------------------------------------------------------
(* The field mapper: float arithmetic and confidences *)

\* Python floats are IEEE 754 binary64; the confidences are sums and products
\* of decimal literals, whose rounding decides which of two candidates sorts
\* first, so the arithmetic is carried out exactly as the hardware does
\* a limb holds 14 bits; a natural number is the sequence of its limbs,
\* least significant first
LimbBits == 14

LimbBase == 2^LimbBits

\* the significand of a binary64 float has 53 bits
SignificandBits == 53

\* a float is a natural number of FracLimbs fractional limbs in FloatLimbs limbs
FracLimbs == 5

FloatLimbs == 6

Zeros(n) == [i \in 1..n |-> 0]

RECURSIVE BigAddFrom(_, _, _, _)
BigAddFrom(a, b, i, carry) ==
    IF i > Len(a) /\ i > Len(b)
    THEN IF carry = 0 THEN <<>> ELSE <<carry>>
    ELSE LET t == (IF i <= Len(a) THEN a[i] ELSE 0)
                  + (IF i <= Len(b) THEN b[i] ELSE 0) + carry
         IN  <<t % LimbBase>> \o BigAddFrom(a, b, i + 1, t \div LimbBase)

BigAdd(a, b) == BigAddFrom(a, b, 1, 0)

RECURSIVE BigMulSmallFrom(_, _, _, _)
BigMulSmallFrom(a, k, i, carry) ==
    IF i > Len(a)
    THEN IF carry = 0 THEN <<>> ELSE <<carry>>
    ELSE LET t == a[i] * k + carry
         IN  <<t % LimbBase>> \o BigMulSmallFrom(a, k, i + 1, t \div LimbBase)

\* a * k for 0 <= k < LimbBase
BigMulSmall(a, k) == BigMulSmallFrom(a, k, 1, 0)

RECURSIVE BigMulFrom(_, _, _)
BigMulFrom(a, b, i) ==
    IF i > Len(b) THEN <<>>
    ELSE BigAdd(Zeros(i - 1) \o BigMulSmall(a, b[i]), BigMulFrom(a, b, i + 1))

BigMul(a, b) == BigMulFrom(a, b, 1)

RECURSIVE BigDivSmallFrom(_, _, _, _)
\* long division from the top limb: <<quotient limbs, remainder>>
BigDivSmallFrom(a, d, i, rem) ==
    IF i = 0 THEN <<<<>>, rem>>
    ELSE LET t == rem * LimbBase + a[i]
             rest == BigDivSmallFrom(a, d, i - 1, t % d)
         IN  <<Append(rest[1], t \div d), rest[2]>>

\* <<a div d, a mod d>> for 0 < d <= LimbBase
BigDivSmall(a, d) == BigDivSmallFrom(a, d, Len(a), 0)

IsZero(a) == \A i \in 1..Len(a) : a[i] = 0

\* the number of bits of a
BitLen(a) ==
    IF IsZero(a) THEN 0
    ELSE LET top == CHOOSE i \in 1..Len(a) : a[i] # 0 /\ \A j \in (i + 1)..Len(a) : a[j] = 0
         IN  (top - 1) * LimbBits
             + (CHOOSE b \in 1..LimbBits : 2^(b - 1) <= a[top] /\ a[top] < 2^b)

\* a quotient and remainder and the limbs shifted out below them as
\* <<quotient, whether anything was lost>>
Sticky(d, low) == <<d[1], d[2] # 0 \/ ~IsZero(low)>>

\* <<a div 2^k, whether a mod 2^k is not 0>>
ShiftRight(a, k) ==
    Sticky(BigDivSmall(SubSeq(a, (k \div LimbBits) + 1, Len(a)), 2^(k % LimbBits)),
           SubSeq(a, 1, k \div LimbBits))

\* a * 2^k
ShiftLeft(a, k) == Zeros(k \div LimbBits) \o BigMulSmall(a, 2^(k % LimbBits))

\* a in exactly n limbs (the limbs above are 0)
Limbs(a, n) == [i \in 1..n |-> IF i <= Len(a) THEN a[i] ELSE 0]

\* q = <<the bits kept, the bit below them>>, rounded to nearest and to even
\* on a tie, and put back in place
RoundKept(q, lost, p) ==
    ShiftLeft(IF q[2] = 1 /\ (lost \/ q[1][1] % 2 = 1)
              THEN BigAdd(q[1], <<1>>) ELSE q[1], p)

\* y = <<the bits kept and the one below, whether lower bits were lost>>
RoundHalf(y, inexact, p) == RoundKept(BigDivSmall(y[1], 2), y[2] \/ inexact, p)

\* a with its lowest p bits rounded away
RoundAway(a, inexact, p) ==
    IF p <= 0 THEN a ELSE RoundHalf(ShiftRight(a, p - 1), inexact, p)

\* a, or a plus a lost fraction when inexact, rounded to SignificandBits
\* significant bits, to nearest and to even on a tie
RoundSignificand(a, inexact) == RoundAway(a, inexact, BitLen(a) - SignificandBits)

\* float(n): a small integer
FloatOfInt(n) == Limbs(Zeros(FracLimbs) \o <<n>>, FloatLimbs)

\* r without its lowest n limbs, as a float
Float(r, n) == Limbs(SubSeq(r, n + 1, Len(r)), FloatLimbs)

\* a quotient and remainder of two extra limbs, rounded
RoundQuotient(q) == Float(RoundSignificand(q[1], q[2] # 0), 2)

\* the float nearest to a / d, for a float a and an integer 0 < d < LimbBase
FloatDiv(a, d) == RoundQuotient(BigDivSmall(Zeros(2) \o a, d))

\* the float a decimal literal n/d denotes
FloatLiteral(n, d) == FloatDiv(FloatOfInt(n), d)

FloatAdd(a, b) == Limbs(RoundSignificand(BigAdd(a, b), FALSE), FloatLimbs)

FloatMul(a, b) ==
    IF IsZero(a) \/ IsZero(b) THEN Zeros(FloatLimbs)
    ELSE Float(RoundSignificand(BigMul(a, b), FALSE), FracLimbs)

RECURSIVE FloatLessFrom(_, _, _)
FloatLessFrom(a, b, i) ==
    IF i = 0 THEN FALSE
    ELSE IF a[i] # b[i] THEN a[i] < b[i]
    ELSE FloatLessFrom(a, b, i - 1)

\* a < b
FloatLess(a, b) == FloatLessFrom(a, b, FloatLimbs)

FloatMin(a, b) == IF FloatLess(b, a) THEN b ELSE a

FloatMax(a, b) == IF FloatLess(a, b) THEN b ELSE a

\* the literals n/10 and n/100
TenthLiterals == [n \in 1..9 |-> FloatLiteral(n, 10)]

Tenths(n) == TenthLiterals[n]

HundredthLiterals == [n \in 1..99 |-> FloatLiteral(n, 100)]

Hundredths(n) == HundredthLiterals[n]

\* the literal 1.0
One == FloatOfInt(1)

\* the element of a one-element set: {F(v) : v \in {e}} holds F(e) alone, with
\* e worked out before F is applied to it, as Python evaluates the argument
\* of a call before the call
TheOne(S) == CHOOSE v \in S : TRUE

Min(a, b) == IF a <= b THEN a ELSE b

\* the mapping context: the two keys the boosts read, Absent when not given
NoContext == [deceasedName |-> Absent, relationshipToDeceased |-> Absent]

_apply_context_boosts(base_confidence, normalized_key, value, field_name, context_data) ==
    IF /\ Contains(field_name, "deceased")
       /\ context_data.deceasedName # Absent
       /\ value.kind = "dict"
       /\ Contains(_normalize_text(value.value), _normalize_text(context_data.deceasedName))
    THEN FloatMin(One, FloatAdd(base_confidence, Tenths(2)))
    ELSE IF /\ Contains(field_name, "relationship")
            /\ context_data.relationshipToDeceased # Absent
            /\ \/ Contains(normalized_key, "relationship")
               \/ Contains(normalized_key,
                           _normalize_text(context_data.relationshipToDeceased))
    THEN FloatMin(One, FloatAdd(base_confidence, Tenths(3)))
    ELSE base_confidence

\* the field-name keywords each document type is associated with
associations ==
    << <<"death_certificate", {"deceased", "death", "birth"}>>,
       <<"funeral_invoice", {"funeral", "cost", "director", "service"}>>,
       <<"benefit_letter", {"benefit", "payment", "eligibility"}>>,
       <<"relationship_proof", {"relationship", "connection", "family"}>> >>

_apply_document_type_boosts(base_confidence, field_name, document_type) ==
    IF \E i \in 1..Len(associations) :
           /\ Contains(lower(document_type), associations[i][1])
           /\ \E keyword \in associations[i][2] : Contains(lower(field_name), keyword)
    THEN FloatMin(One, FloatAdd(base_confidence, Hundredths(15)))
    ELSE base_confidence

WordSet(s) == LET words == split(s) IN {words[i] : i \in 1..Len(words)}

\* 0.8 for a semantic context of the section found in the key, 0.6 for the
\* key found in one
ContextRelevance(normalized_key, ctxs) ==
    IF \E i \in 1..Len(ctxs) : Contains(normalized_key, ctxs[i]) THEN Tenths(8)
    ELSE IF \E i \in 1..Len(ctxs) : Contains(ctxs[i], normalized_key) THEN Tenths(6)
    ELSE FloatOfInt(0)

\* the words shared with the section title count when no context matched
TitleRelevance(max_relevance, key_words, title_words) ==
    IF IsZero(max_relevance) /\ key_words \cap title_words # {}
    THEN FloatDiv(FloatMul(Tenths(3),
                           FloatOfInt(Cardinality(key_words \cap title_words))),
                  Min(Cardinality(key_words), Cardinality(title_words)))
    ELSE max_relevance

_calculate_section_relevance(normalized_key, section) ==
    FloatMax(Tenths(1),
             TitleRelevance(ContextRelevance(normalized_key, section.norm_context),
                            WordSet(normalized_key), WordSet(section.norm_title)))

\* the confidence of the label or of a semantic context
NameConfidence(normalized_key, field) ==
    IF Contains(normalized_key, field.norm_label) THEN Tenths(8)
    ELSE IF \E i \in 1..Len(field.norm_context) :
                \/ Contains(normalized_key, field.norm_context[i])
                \/ Contains(field.norm_context[i], normalized_key)
    THEN Tenths(7)
    ELSE FloatOfInt(0)

\* the boost for a value of the field's type
TypeBoost(confidence, field, value) ==
    IF _field_type_matches_value_type(field, _infer_value_type(value))
    THEN FloatAdd(confidence, Tenths(1)) ELSE confidence

\* "if context_data:"
ContextBoost(confidence, normalized_key, value, field_name, context_data) ==
    IF context_data # NoContext
    THEN _apply_context_boosts(confidence, normalized_key, value, field_name,
                               context_data)
    ELSE confidence

\* "if document_type:"
DocumentTypeBoost(confidence, field_name, document_type) ==
    IF document_type # ""
    THEN _apply_document_type_boosts(confidence, field_name, document_type)
    ELSE confidence

\* min(1.0, confidence * (0.7 + 0.3 * section_relevance))
SectionWeighted(confidence, section_relevance) ==
    FloatMin(One, FloatMul(confidence,
                           FloatAdd(Tenths(7), FloatMul(Tenths(3), section_relevance))))

_calculate_field_match_confidence(normalized_key, value, field, section, document_type, context_data) ==
    IF normalized_key = field.norm_name THEN One
    ELSE TheOne(
        {SectionWeighted(boosted, section_relevance) :
            boosted \in
                {DocumentTypeBoost(in_context, field.name, document_type) :
                    in_context \in
                        {ContextBoost(typed, normalized_key, value, field.name,
                                      context_data) :
                            typed \in
                                {TypeBoost(confidence, field, value) :
                                    confidence \in
                                        {NameConfidence(normalized_key, field)}}}},
            section_relevance \in
                {_calculate_section_relevance(normalized_key, section)}})

-----------------------------------------------------------------------------
(* The field mapper: get_field_mapping and map_extracted_data *)

\* a sort by confidence that puts a later entry ahead of the earlier ones of
\* the same confidence
SortedFrom_unstable(matches, n) ==
    [k \in 1..n |->
        matches[CHOOSE i \in 1..n :
                    k = 1 + Cardinality({j \in 1..n :
                            \/ FloatLess(matches[i][2], matches[j][2])
                            \/ j > i /\ ~FloatLess(matches[j][2], matches[i][2])})]]

\* the entries of matches[:n] that a stable sort in descending order puts
\* ahead of the i-th: those of a higher confidence, and the earlier ones of
\* the same confidence
Ahead(matches, n, i) ==
    {j \in 1..n : \/ FloatLess(matches[i][2], matches[j][2])
                  \/ j < i /\ ~FloatLess(matches[j][2], matches[i][2])}

\* sorted(matches[:n], key=lambda x: x[1], reverse=True): stable, so equal
\* confidences keep the order they were appended in
SortedFrom(matches, n) ==
    [k \in 1..n |->
        matches[CHOOSE i \in 1..n : k = 1 + Cardinality(Ahead(matches, n, i))]]

RECURSIVE ConcatFrom(_, _, _)
\* lists[i] + ... + lists[j]
ConcatFrom(lists, i, j) ==
    IF i > j THEN <<>>
    ELSE IF i = j THEN lists[i]
    ELSE ConcatFrom(lists, i, (i + j) \div 2)
             \o ConcatFrom(lists, ((i + j) \div 2) + 1, j)

\* "if confidence > 0: matches.append((field_name, confidence))"
Matching(field_name, confidence) ==
    IF ~IsZero(confidence) THEN << <<field_name, confidence>> >> ELSE <<>>

\* the (name, confidence) pairs of the fields j.. of one section, in schema order
FieldMatches(normalized_key, value, section, document_type, context_data, j) ==
    ConcatFrom([n \in 1..Len(section.fields) |->
                   Matching(section.fields[n].name,
                            _calculate_field_match_confidence(
                                normalized_key, value, section.fields[n], section,
                                document_type, context_data))],
               j, Len(section.fields))

\* the pairs of the sections i.. that the document type lets through
SectionMatches(normalized_key, value, document_type, context_data, i) ==
    ConcatFrom([n \in 1..Len(schema.sections) |->
                   IF document_type # ""
                      /\ ~_section_matches_document_type(schema.sections[n],
                                                         document_type)
                   THEN <<>>
                   ELSE FieldMatches(normalized_key, value, schema.sections[n],
                                     document_type, context_data, 1)],
               i, Len(schema.sections))

\* get_field_mapping without the final sort
get_field_mapping_unsorted(extracted_key, extracted_value, document_type, context_data) ==
    SectionMatches(_normalize_text(extracted_key), extracted_value,
                   document_type, context_data, 1)

\* sorted(matches, key=lambda x: x[1], reverse=True)
Sorted(matches) == SortedFrom(matches, Len(matches))

get_field_mapping(extracted_key, extracted_value, document_type, context_data) ==
    Sorted(SectionMatches(_normalize_text(extracted_key), extracted_value,
                          document_type, context_data, 1))

\* result[key] = value on a dict kept as a function
Put(result, key, value) == (key :> value) @@ result

\* the acceptance test without its threshold
GoodMatch_any_candidate(field_matches) == field_matches # <<>>

\* "field_matches and field_matches[0][1] >= 0.5"
GoodMatch(field_matches) ==
    field_matches # <<>> /\ ~FloatLess(field_matches[1][2], Tenths(5))

\* the special case for names left out: the value stored whole
SplitName_whole(result, best_match, value) == Put(result, best_match, value)

\* the special case for names: a dict value mapped to a ...FirstName field
SplitName(result, best_match, value) ==
    LET full_name == split(value.value)
        field_base == SubSeq(best_match, 1, Len(best_match) - 9)
        reasoning == IF value.reasoning = Absent THEN "Split from full name"
                     ELSE value.reasoning
    IN  IF Len(full_name) > 1
        THEN Put(Put(result,
                     field_base \o "FirstName",
                     DictValue(join(SubSeq(full_name, 1, Len(full_name) - 1)),
                               reasoning \o " (first name)")),
                 field_base \o "LastName",
                 DictValue(full_name[Len(full_name)], reasoning \o " (last name)"))
        ELSE Put(result, best_match, value)

\* a match accepted: the value stored under the best match, a name split
StoreMatch(result, best_match, value) ==
    IF endswith(best_match, "FirstName") /\ value.kind = "dict"
    THEN SplitName(result, best_match, value)
    ELSE Put(result, best_match, value)

\* one iteration of the loop of map_extracted_data with the field matches
\* at hand
MapMatched(result, key, value, field_matches) ==
    IF GoodMatch(field_matches)
    THEN StoreMatch(result, field_matches[1][1], value)
    ELSE Put(result, key, value)

\* one iteration of the loop of map_extracted_data
MapEntry(result, key, value, document_type, context_data) ==
    IF startswith(key, "_") THEN Put(result, key, value)
    ELSE MapMatched(result, key, value,
                    get_field_mapping(key, value, document_type, context_data))

RECURSIVE MapResults(_, _, _, _)
\* the result dict before the loop and after each of the first n items of
\* extracted_data, in order
MapResults(extracted_data, document_type, context_data, n) ==
    IF n = 0 THEN << <<>> >>
    ELSE LET before == MapResults(extracted_data, document_type, context_data, n - 1)
         IN  Append(before,
                    MapEntry(before[n], extracted_data[n][1], extracted_data[n][2],
                             document_type, context_data))

map_extracted_data(extracted_data, document_type, context_data) ==
    MapResults(extracted_data, document_type, context_data,
               Len(extracted_data))[Len(extracted_data) + 1]

-----------------------------------------------------------------------------
(* The field mapper's callers: the inputs drawn and the two entry points *)

\* the most items an extracted_data dict holds in the model
MaxItems == 2

\* extracted keys: schema field names as the model writes them, labels,
\* semantic contexts, keys nothing in the schema recalls, a metadata key
Keys ==
    {"evidence", "relationshipToDeceased", "deceasedFirstName", "deceasedLastName",
     "deceasedDateOfBirth", "deceasedDateOfDeath", "funeralDirector", "funeralCost",
     "funeralDate", " FuneralDirector ", "FUNERALCOST", "funeral_director", "name", "first name",
     "date of death", "funeral home", "cause", "relationship to deceased dob"}

Values ==
    {DictValue("Brian Hughes", "From the header"), DictValue("Brian", Absent),
     DictValue("12/05/2023", "From the body"), DictValue("$3500", "From the total"),
     StrValue("Brian Hughes")}

\* None (the empty string) and the classifier's document types
DocumentTypes == {"", "death_certificate", "funeral_invoice", "benefit_letter"}

Contexts ==
    {NoContext,
     [deceasedName |-> "Brian Hughes", relationshipToDeceased |-> Absent],
     [deceasedName |-> Absent, relationshipToDeceased |-> "son"]}

\* the contexts and document types map_extracted_data is called with
MapContexts ==
    {NoContext, [deceasedName |-> "Brian Hughes", relationshipToDeceased |-> Absent]}

MapDocumentTypes == {"", "death_certificate"}

\* the items extracted_data is built from: one value per key
Items ==
    { <<"first name", DictValue("Brian", Absent)>>,
      <<"deceased first name", DictValue(" Mary  Ann Hughes ", Absent)>>,
      <<"given name", StrValue("Brian Hughes")>>,
      <<"deceasedLastName", DictValue("Smith", "From the header")>>,
      <<"date of death", DictValue("12/05/2023", "From the body")>>,
      <<"cause", DictValue("Natural causes", "From the body")>>,
      <<"_fileType", DictValue("death certificate", "Detected")>> }

\* dicts of at most MaxItems items, as the sequence of their items in
\* insertion order; a dict holds a key once
ExtractedData ==
    {d \in UNION {[1..n -> Items] : n \in 0..MaxItems} :
        \A i, j \in 1..Len(d) : i # j => d[i][1] # d[j][1]}

NoMapCall ==
    [op |-> "none", key |-> Absent, value |-> StrValue(""), extracted_data |-> <<>>,
     document_type |-> "", context_data |-> NoContext, matches |-> <<>>,
     results |-> <<>>]

InitMap ==
    /\ pc = "idle"
    /\ req = [handler |-> "agent_chat", use_web_search |-> FALSE]
    /\ state = initial_state
    /\ rag_db = "None"
    /\ tavily_key = FALSE
    /\ router_out = NoRouterCall
    /\ calls = <<>>
    /\ reply = NoReply
    /\ mapio = NoMapCall

\* a call of IntelligentMapper.get_field_mapping
GetFieldMapping ==
    /\ mapio.op = "none"
    /\ \E key \in Keys, value \in Values, document_type \in DocumentTypes,
          context_data \in Contexts :
        mapio' = [NoMapCall EXCEPT
                    !.op = "get_field_mapping",
                    !.key = key, !.value = value,
                    !.document_type = document_type,
                    !.context_data = context_data,
                    !.matches = get_field_mapping(key, value, document_type,
                                                  context_data)]
    /\ UNCHANGED wfvars

\* a call of IntelligentMapper.map_extracted_data; results[n + 1] is the
\* result dict after the first n items, and the last one is what it returns
MapExtractedData ==
    /\ mapio.op = "none"
    /\ \E extracted_data \in ExtractedData, document_type \in MapDocumentTypes,
          context_data \in MapContexts :
        mapio' = [NoMapCall EXCEPT
                    !.op = "map_extracted_data",
                    !.extracted_data = extracted_data,
                    !.document_type = document_type,
                    !.context_data = context_data,
                    !.results = MapResults(extracted_data, document_type,
                                           context_data, Len(extracted_data))]
    /\ UNCHANGED wfvars

\* the caller has taken what the call returned; the mapper keeps no state
\* between calls
MapReturn ==
    /\ mapio.op # "none"
    /\ mapio' = NoMapCall
    /\ UNCHANGED wfvars

NextMap == GetFieldMapping \/ MapExtractedData \/ MapReturn

SpecMap == InitMap /\ [][NextMap]_vars

-----------------------------------------------------------------------------
(* Claims about the field mapper, checked under SpecMap *)

\* the items of the call of map_extracted_data on record, by position
ItemKey(i) == mapio.extracted_data[i][1]

ItemValue(i) == mapio.extracted_data[i][2]

\* what get_field_mapping returns for item i of that call
Candidates(i) ==
    get_field_mapping(ItemKey(i), ItemValue(i), mapio.document_type, mapio.context_data)

\* the result dict just before and just after item i was processed
Before(i) == mapio.results[i]

After(i) == mapio.results[i + 1]

\* the dict map_extracted_data returned
Output == mapio.results[Len(mapio.results)]

Holds(d, k, v) == k \in DOMAIN d /\ d[k] = v

\* item i is a dict value whose best candidate is a ...FirstName field that
\* clears the threshold
IsNameItem(i, m) ==
    /\ ItemValue(i).kind = "dict"
    /\ m # <<>>
    /\ ~FloatLess(m[1][2], Tenths(5))
    /\ endswith(m[1][1], "FirstName")

\* C8: map_extracted_data keeps a non-metadata key under its original name
\* with its original value, in what it returns, when get_field_mapping gives
\* no candidate or a best candidate below 0.5; when the best candidate has at
\* least 0.5 the returned dict has the best candidate's field name, the key
\* itself is not added under its old name, and (the name split aside) the
\* value is stored under the new name.
C8_KeepBelowHalfRenameFromHalf ==
    mapio.op = "map_extracted_data" =>
        \A i \in 1..Len(mapio.extracted_data) :
            ~startswith(ItemKey(i), "_") =>
                LET m == Candidates(i)
                IN  IF m = <<>> \/ FloatLess(m[1][2], Tenths(5))
                    THEN /\ Holds(After(i), ItemKey(i), ItemValue(i))
                         /\ Holds(Output, ItemKey(i), ItemValue(i))
                    ELSE /\ m[1][1] \in DOMAIN After(i)
                         /\ m[1][1] \in DOMAIN Output
                         /\ ItemKey(i) # m[1][1] =>
                                /\ ItemKey(i) \notin DOMAIN After(i) \ DOMAIN Before(i)
                                /\ ItemKey(i) \notin DOMAIN Output
                         /\ ~(IsNameItem(i, m) /\ Len(split(ItemValue(i).value)) > 1) =>
                                Holds(After(i), m[1][1], ItemValue(i))

\* a call in which one key had candidates but none reaching 0.5 and was kept,
\* and another key was renamed to a field of a different name
C8_Witness ==
    /\ mapio.op = "map_extracted_data"
    /\ \E i, j \in 1..Len(mapio.extracted_data) :
        /\ ~startswith(ItemKey(i), "_")
        /\ Candidates(i) # <<>>
        /\ FloatLess(Candidates(i)[1][2], Tenths(5))
        /\ Holds(Output, ItemKey(i), ItemValue(i))
        /\ ~startswith(ItemKey(j), "_")
        /\ Candidates(j) # <<>>
        /\ ~FloatLess(Candidates(j)[1][2], Tenths(5))
        /\ Candidates(j)[1][1] # ItemKey(j)
        /\ Holds(Output, Candidates(j)[1][1], ItemValue(j))


\* the first-name and last-name entries the split of item i is to produce
NamePrefix(m) == SubSeq(m[1][1], 1, Len(m[1][1]) - Len("FirstName"))

OriginalReasoning(i) ==
    IF ItemValue(i).reasoning = Absent THEN "Split from full name"
    ELSE ItemValue(i).reasoning

FirstNameEntry(i) ==
    LET words == split(ItemValue(i).value)
    IN  DictValue(join(SubSeq(words, 1, Len(words) - 1)),
                  OriginalReasoning(i) \o " (first name)")

LastNameEntry(i) ==
    LET words == split(ItemValue(i).value)
    IN  DictValue(words[Len(words)], OriginalReasoning(i) \o " (last name)")

\* an item after item i changed what the result dict holds under name
WrittenLater(i, name) ==
    \E j \in (i + 1)..Len(mapio.extracted_data) :
        name \notin DOMAIN Before(j) \/ After(j)[name] # Before(j)[name]

\* C9 as stated: when the target of a dict value ends in FirstName, the
\* returned dict holds <prefix>FirstName = all words but the last and
\* <prefix>LastName = the last word, with the reasoning suffixed, if the value
\* has two or more words; a single word is returned unchanged under the
\* target and the returned dict has no <prefix>LastName.
C9_NameSplitInOutput ==
    mapio.op = "map_extracted_data" =>
        \A i \in 1..Len(mapio.extracted_data) :
            LET m == Candidates(i)
                words == split(ItemValue(i).value)
            IN  ~startswith(ItemKey(i), "_") /\ IsNameItem(i, m) =>
                    /\ Len(words) >= 2 =>
                        /\ Holds(Output, NamePrefix(m) \o "FirstName", FirstNameEntry(i))
                        /\ Holds(Output, NamePrefix(m) \o "LastName", LastNameEntry(i))
                    /\ Len(words) = 1 =>
                        /\ Holds(Output, m[1][1], ItemValue(i))
                        /\ NamePrefix(m) \o "LastName" \notin DOMAIN Output

\* C9, amended: the same holds of the result dict right after the key is
\* processed, where a single word adds nothing but the target itself; the
\* returned dict holds each of these entries unless a later key of the same
\* data was written under that name.
C9_NameSplitPerKey ==
    mapio.op = "map_extracted_data" =>
        \A i \in 1..Len(mapio.extracted_data) :
            LET m == Candidates(i)
                words == split(ItemValue(i).value)
                first == NamePrefix(m) \o "FirstName"
                last == NamePrefix(m) \o "LastName"
            IN  ~startswith(ItemKey(i), "_") /\ IsNameItem(i, m) =>
                    /\ Len(words) >= 2 =>
                        /\ Holds(After(i), first, FirstNameEntry(i))
                        /\ Holds(After(i), last, LastNameEntry(i))
                        /\ DOMAIN After(i) = DOMAIN Before(i) \cup {first, last}
                        /\ Holds(Output, first, FirstNameEntry(i)) \/ WrittenLater(i, first)
                        /\ Holds(Output, last, LastNameEntry(i)) \/ WrittenLater(i, last)
                    /\ Len(words) = 1 =>
                        /\ Holds(After(i), m[1][1], ItemValue(i))
                        /\ DOMAIN After(i) = DOMAIN Before(i) \cup {m[1][1]}
                        /\ Holds(Output, m[1][1], ItemValue(i)) \/ WrittenLater(i, m[1][1])

\* a call that split a name of three words, kept both halves in what it
\* returned, and stored a single-word name of another key unchanged
C9_Witness ==
    /\ mapio.op = "map_extracted_data"
    /\ \E i, j \in 1..Len(mapio.extracted_data) :
        /\ IsNameItem(i, Candidates(i))
        /\ Len(split(ItemValue(i).value)) = 3
        /\ Holds(Output, "deceasedFirstName", FirstNameEntry(i))
        /\ Holds(Output, "deceasedLastName", LastNameEntry(i))
        /\ Output["deceasedFirstName"].value = "Mary Ann"
        /\ IsNameItem(j, Candidates(j))
        /\ Len(split(ItemValue(j).value)) = 1
        /\ Holds(After(j), "deceasedFirstName", ItemValue(j))


\* the sections of the schema that declare a field of this name
SectionsOf(name) ==
    {i \in 1..Len(form_schema.sections) :
        \E j \in 1..Len(form_schema.sections[i].fields) :
            form_schema.sections[i].fields[j].name = name}

FieldNames ==
    UNION {{form_schema.sections[i].fields[j].name :
                j \in 1..Len(form_schema.sections[i].fields)} :
           i \in 1..Len(form_schema.sections)}

\* the key of the call of get_field_mapping on record is F's name once both
\* are normalised
KeyNames(F) ==
    /\ mapio.op = "get_field_mapping"
    /\ _normalize_text(mapio.key) = _normalize_text(F)

\* C10 as stated: whatever the document type and the context, a key that
\* equals a schema field's name after normalisation gets that field first,
\* with confidence exactly 1.0.
C10_ExactNameFirstAlways ==
    \A F \in FieldNames :
        KeyNames(F) => mapio.matches # <<>> /\ mapio.matches[1] = <<F, One>>

\* C10, amended: this holds when no document type is given or a section that
\* declares the field matches the document type; otherwise the section is
\* skipped and the field is not among the candidates at all.
C10_ExactNameFirstInMatchingSection ==
    \A F \in FieldNames :
        KeyNames(F) =>
            IF \/ mapio.document_type = ""
               \/ \E i \in SectionsOf(F) :
                    _section_matches_document_type(form_schema.sections[i],
                                                   mapio.document_type)
            THEN mapio.matches # <<>> /\ mapio.matches[1] = <<F, One>>
            ELSE \A k \in 1..Len(mapio.matches) : mapio.matches[k][1] # F

\* a key that differs from the field's name in case and spacing, for a field
\* that is not the first of its section, with a document type and a context
\* given and other candidates behind it
C10_Witness ==
    /\ KeyNames("funeralCost")
    /\ mapio.key # "funeralCost"
    /\ mapio.document_type = "funeral_invoice"
    /\ mapio.context_data # NoContext
    /\ mapio.matches[1] = <<"funeralCost", One>>
    /\ Len(mapio.matches) > 1

-----------------------------------------------------------------------------
(* C11: the order of the candidates *)

RECURSIVE DeclaredFrom(_, _)
\* the field names of the sections i.. of the schema, fields from j in section
\* i, in the order the schema declares them
DeclaredFrom(i, j) ==
    IF i > Len(form_schema.sections) THEN <<>>
    ELSE IF j > Len(form_schema.sections[i].fields) THEN DeclaredFrom(i + 1, 1)
    ELSE <<form_schema.sections[i].fields[j].name>> \o DeclaredFrom(i, j + 1)

DeclaredNames == DeclaredFrom(1, 1)

RECURSIVE InOrderFrom(_, _, _, _)
\* the names a[i..] occur in b[j..] in the same order, each at a place of its own
InOrderFrom(a, i, b, j) ==
    IF i > Len(a) THEN TRUE
    ELSE IF j > Len(b) THEN FALSE
    ELSE IF a[i] = b[j] THEN InOrderFrom(a, i + 1, b, j + 1)
    ELSE InOrderFrom(a, i, b, j + 1)

RECURSIVE NamesWith(_, _, _)
\* the names of the entries n.. of matches that carry the confidence c
NamesWith(matches, c, n) ==
    IF n > Len(matches) THEN <<>>
    ELSE (IF matches[n][2] = c THEN <<matches[n][1]>> ELSE <<>>)
         \o NamesWith(matches, c, n + 1)

\* C11: the sequence get_field_mapping returns has every confidence in (0, 1],
\* is sorted by confidence, highest first, and the entries that share a
\* confidence stand in the order the schema declares their fields
C11_SortedStableInUnitInterval ==
    mapio.op = "get_field_mapping" =>
        LET m == mapio.matches
        IN  /\ \A n \in 1..Len(m) :
                /\ ~IsZero(m[n][2])
                /\ ~FloatLess(One, m[n][2])
            /\ \A n \in 1..(Len(m) - 1) : ~FloatLess(m[n][2], m[n + 1][2])
            /\ \A n \in 1..Len(m) :
                InOrderFrom(NamesWith(m, m[n][2], 1), 1, DeclaredNames, 1)

\* C11 witness: a returned sequence in which two different fields share a
\* confidence, a third one has a lower one, and two confidences differ by
\* less than a thousandth without being equal
C11_Witness ==
    /\ mapio.op = "get_field_mapping"
    /\ LET m == mapio.matches
       IN  /\ \E n \in 1..(Len(m) - 1) :
                m[n][2] = m[n + 1][2] /\ m[n][1] # m[n + 1][1]
           /\ \E n \in 1..(Len(m) - 1) :
                /\ FloatLess(m[n + 1][2], m[n][2])
                /\ FloatLess(m[n][2], FloatAdd(m[n + 1][2], FloatLiteral(1, 1000)))

-----------------------------------------------------------------------------
(* The date normalizer: numbers, names and strptime *)

\* the value of each decimal digit
DigitValue ==
    [c \in DigitChars |-> (CHOOSE i \in 1..Len(Digits) : Char(Digits, i) = c) - 1]

RECURSIVE IntFrom(_, _, _)
IntFrom(s, i, n) ==
    IF i > Len(s) THEN n ELSE IntFrom(s, i + 1, 10 * n + DigitValue[Char(s, i)])

\* int(s) of a string of decimal digits
int(s) == IntFrom(s, 1, 0)

RECURSIVE str(_)
\* str(n) of an integer n >= 0
str(n) ==
    IF n < 10 THEN Char(Digits, n + 1)
    ELSE str(n \div 10) \o Char(Digits, (n % 10) + 1)

\* f"{n}": no padding
Pad2_unpadded(n) == str(n)

\* f"{n:02d}"
Pad2(n) == IF n < 10 THEN "0" \o str(n) ELSE str(n)

\* the items of self.month_names, in insertion order
month_names ==
    << <<"january", 1>>, <<"february", 2>>, <<"march", 3>>, <<"april", 4>>,
       <<"may", 5>>, <<"june", 6>>, <<"july", 7>>, <<"august", 8>>,
       <<"september", 9>>, <<"october", 10>>, <<"november", 11>>, <<"december", 12>>,
       <<"jan", 1>>, <<"feb", 2>>, <<"mar", 3>>, <<"apr", 4>>, <<"jun", 6>>,
       <<"jul", 7>>, <<"aug", 8>>, <<"sep", 9>>, <<"sept", 9>>, <<"oct", 10>>,
       <<"nov", 11>>, <<"dec", 12>> >>

\* the items of self.day_names, in insertion order
day_names ==
    << <<"first", 1>>, <<"second", 2>>, <<"third", 3>>, <<"fourth", 4>>,
       <<"fifth", 5>>, <<"sixth", 6>>, <<"seventh", 7>>, <<"eighth", 8>>,
       <<"ninth", 9>>, <<"tenth", 10>>, <<"eleventh", 11>>, <<"twelfth", 12>>,
       <<"thirteenth", 13>>, <<"fourteenth", 14>>, <<"fifteenth", 15>>,
       <<"sixteenth", 16>>, <<"seventeenth", 17>>, <<"eighteenth", 18>>,
       <<"nineteenth", 19>>, <<"twentieth", 20>>, <<"twenty-first", 21>>,
       <<"twenty-second", 22>>, <<"twenty-third", 23>>, <<"twenty-fourth", 24>>,
       <<"twenty-fifth", 25>>, <<"twenty-sixth", 26>>, <<"twenty-seventh", 27>>,
       <<"twenty-eighth", 28>>, <<"twenty-ninth", 29>>, <<"thirtieth", 30>>,
       <<"thirty-first", 31>>,
       <<"1st", 1>>, <<"2nd", 2>>, <<"3rd", 3>>, <<"4th", 4>>, <<"5th", 5>>,
       <<"6th", 6>>, <<"7th", 7>>, <<"8th", 8>>, <<"9th", 9>>, <<"10th", 10>>,
       <<"11th", 11>>, <<"12th", 12>>, <<"13th", 13>>, <<"14th", 14>>,
       <<"15th", 15>>, <<"16th", 16>>, <<"17th", 17>>, <<"18th", 18>>,
       <<"19th", 19>>, <<"20th", 20>>, <<"21st", 21>>, <<"22nd", 22>>,
       <<"23rd", 23>>, <<"24th", 24>>, <<"25th", 25>>, <<"26th", 26>>,
       <<"27th", 27>>, <<"28th", 28>>, <<"29th", 29>>, <<"30th", 30>>,
       <<"31st", 31>> >>

\* the formats normalize_date hands to datetime.strptime, in order, each as
\* its directives and literals; " " is the \s+ that strptime makes of a blank
formats ==
    << <<"%d", "/", "%m", "/", "%Y">>,
       <<"%d", "-", "%m", "-", "%Y">>,
       <<"%Y", "-", "%m", "-", "%d">>,
       <<"%d", " ", "%B", " ", "%Y">>,
       <<"%d", " ", "%b", " ", "%Y">>,
       <<"%B", " ", "%d", ",", " ", "%Y">>,
       <<"%b", " ", "%d", ",", " ", "%Y">> >>

\* the number of whitespace characters that start at position i
SpaceRun(s, i) ==
    Cardinality({j \in i..Len(s) : \A k \in i..j : IsSpace(Char(s, k))})

\* the number of decimal digits that start at position i, at most n
DigitRun(s, i, n) == Cardinality({k \in 1..n : DigitsAt(s, i, k)})

\* how many characters the directive %d takes at position i, 0 for no match:
\* 3[0-1]|[1-2]\d|0[1-9]|[1-9]| [1-9]
DayLength(s, i) ==
    LET c == CharAt(s, i)
        d == CharAt(s, i + 1)
    IN  IF c = "3" /\ d \in {"0", "1"} THEN 2
        ELSE IF c \in {"1", "2"} /\ IsDigit(d) THEN 2
        ELSE IF c = "0" /\ IsDigit(d) /\ d # "0" THEN 2
        ELSE IF IsDigit(c) /\ c # "0" THEN 1
        ELSE IF c = " " /\ IsDigit(d) /\ d # "0" THEN 2
        ELSE 0

\* how many characters the directive %m takes: 1[0-2]|0[1-9]|[1-9]
MonthLength(s, i) ==
    LET c == CharAt(s, i)
        d == CharAt(s, i + 1)
    IN  IF c = "1" /\ d \in {"0", "1", "2"} THEN 2
        ELSE IF c = "0" /\ IsDigit(d) /\ d # "0" THEN 2
        ELSE IF IsDigit(c) /\ c # "0" THEN 1
        ELSE 0

\* the month names the directives %B and %b know in the C locale
FullMonths == 1..12

AbbreviatedMonths == {5} \cup ((13..24) \ {21})

\* the entry of month_names that a directive of the given set matches at i
MonthAt(s, i, known) ==
    {n \in known : LiteralAt(s, i, month_names[n][1])}

IsLeap(year) == year % 4 = 0 /\ (year % 100 # 0 \/ year % 400 = 0)

DaysInMonth(year, month) ==
    IF month = 2 THEN (IF IsLeap(year) THEN 29 ELSE 28)
    ELSE IF month \in {4, 6, 9, 11} THEN 30 ELSE 31

NoDate == [ok |-> FALSE, day |-> 0, month |-> 0, year |-> 0]

RECURSIVE ParseFrom(_, _, _, _, _)
\* the regular expression of the format fmt, from its k-th part on, matched
\* at position i of s.  Every directive is followed by a literal that is no
\* digit and no letter, or by the end of the format, so the alternative the
\* expression tries first is the only one that can succeed
ParseFrom(s, i, fmt, k, got) ==
    IF k > Len(fmt) THEN (IF i = Len(s) + 1 THEN got ELSE NoDate)
    ELSE LET part == fmt[k]
         IN  IF part = "%d"
             THEN LET n == DayLength(s, i)
                  IN  IF n = 0 THEN NoDate
                      ELSE ParseFrom(s, i + n, fmt, k + 1,
                              [got EXCEPT !.day = int(strip(SubSeq(s, i, i + n - 1)))])
             ELSE IF part = "%m"
             THEN LET n == MonthLength(s, i)
                  IN  IF n = 0 THEN NoDate
                      ELSE ParseFrom(s, i + n, fmt, k + 1,
                              [got EXCEPT !.month = int(SubSeq(s, i, i + n - 1))])
             ELSE IF part = "%Y"
             THEN IF ~DigitsAt(s, i, 4) THEN NoDate
                  ELSE ParseFrom(s, i + 4, fmt, k + 1,
                          [got EXCEPT !.year = int(SubSeq(s, i, i + 3))])
             ELSE IF part \in {"%B", "%b"}
             THEN LET names == MonthAt(s, i, IF part = "%B" THEN FullMonths
                                             ELSE AbbreviatedMonths)
                  IN  IF names = {} THEN NoDate
                      ELSE LET n == CHOOSE n \in names : TRUE
                           IN  ParseFrom(s, i + Len(month_names[n][1]), fmt, k + 1,
                                   [got EXCEPT !.month = month_names[n][2]])
             ELSE IF part = " "
             THEN IF SpaceRun(s, i) = 0 THEN NoDate
                  ELSE ParseFrom(s, i + SpaceRun(s, i), fmt, k + 1, got)
             ELSE IF LiteralAt(s, i, part)
                  THEN ParseFrom(s, i + Len(part), fmt, k + 1, got)
                  ELSE NoDate

\* the parsed fields as a date, when they are one
CalendarDate(dt) ==
    IF dt.ok /\ dt.year >= 1 /\ dt.day <= DaysInMonth(dt.year, dt.month)
    THEN dt ELSE NoDate

\* datetime.strptime(date_string, fmt): the date, or ok = FALSE for ValueError
\* (no match, unconverted data, year 0, or a day the month does not have)
strptime(date_string, fmt) ==
    CalendarDate(ParseFrom(date_string, 1, fmt, 1,
                           [ok |-> TRUE, day |-> 0, month |-> 0, year |-> 0]))

\* the C libraries differ in %Y for a year below 1000: glibc prints the
\* number as it is, the others pad it to four digits
Libcs == {"glibc", "padded"}

\* dt.strftime('%d/%m/%Y')
strftime(dt, libc) ==
    LET year == str(dt.year)
        zeros == IF libc = "padded" THEN SubSeq("000", 1, 4 - Len(year)) ELSE ""
    IN  Pad2(dt.day) \o "/" \o Pad2(dt.month) \o "/" \o zeros \o year

-----------------------------------------------------------------------------
(* The date normalizer: normalize_date and process_data_object *)

\* the least member of a set of positions, 0 for the empty set
Least(S) == IF S = {} THEN 0 ELSE CHOOSE k \in S : \A j \in S : k <= j

\* the first format that parses date_string, 0 when none does
FirstFormat(date_string) ==
    Least({k \in 1..Len(formats) : strptime(date_string, formats[k]).ok})

\* the matches of (day_pattern)\s+(month_pattern)\s+(\d{4}) that start at
\* position i, each as <<entry of day_names, entry of month_names, position
\* of the year>>
WrittenAt(s, i) ==
    UNION {LET a == i + Len(day_names[dn][1])
               p == SpaceRun(s, a)
           IN  IF p = 0 THEN {}
               ELSE UNION {LET b == a + p + Len(month_names[mn][1])
                               q == SpaceRun(s, b)
                           IN  IF q > 0 /\ DigitsAt(s, b + q, 4)
                               THEN {<<dn, mn, b + q>>} ELSE {}
                           : mn \in MonthAt(s, a + p, 1..Len(month_names))}
           : dn \in {n \in 1..Len(day_names) : LiteralAt(s, i, day_names[n][1])}}

\* re.search of that pattern: the leftmost match, and at its position the one
\* of the alternatives that the expression tries first
SearchWritten(s) ==
    LET starts == {i \in 1..Len(s) : WrittenAt(s, i) # {}}
    IN  IF starts = {} THEN <<>>
        ELSE LET i == CHOOSE i \in starts : \A j \in starts : i <= j
                 m == CHOOSE m \in WrittenAt(s, i) :
                          \A o \in WrittenAt(s, i) :
                              m[1] < o[1] \/ (m[1] = o[1] /\ m[2] <= o[2])
             IN  <<day_names[m[1]][2], month_names[m[2]][2], SubSeq(s, m[3], m[3] + 3)>>

IsSeparator(c) == c \in {"/", "-"}

\* the match of (\d{1,2})[/-](\d{1,2})[/-](\d{2,4}) at position i as its three
\* groups, <<>> when there is none; the quantifiers are greedy
DayFirstAt(s, i) ==
    LET a == DigitRun(s, i, 2)
        b == DigitRun(s, i + a + 1, 2)
        c == DigitRun(s, i + a + b + 2, 4)
    IN  IF /\ a >= 1 /\ IsSeparator(CharAt(s, i + a))
           /\ b >= 1 /\ IsSeparator(CharAt(s, i + a + 1 + b))
           /\ c >= 2
        THEN <<SubSeq(s, i, i + a - 1), SubSeq(s, i + a + 1, i + a + b),
               SubSeq(s, i + a + b + 2, i + a + b + 1 + c)>>
        ELSE <<>>

\* the match of (\d{4})[/-](\d{1,2})[/-](\d{1,2}) at position i
YearFirstAt(s, i) ==
    LET b == DigitRun(s, i + 5, 2)
        c == DigitRun(s, i + 6 + b, 2)
    IN  IF /\ DigitsAt(s, i, 4) /\ IsSeparator(CharAt(s, i + 4))
           /\ b >= 1 /\ IsSeparator(CharAt(s, i + 5 + b))
           /\ c >= 1
        THEN <<SubSeq(s, i, i + 3), SubSeq(s, i + 5, i + 4 + b),
               SubSeq(s, i + 6 + b, i + 5 + b + c)>>
        ELSE <<>>

\* re.search(date_patterns[n], s).groups(), <<>> for no match
SearchNumeric(s, n) ==
    LET At(i) == IF n = 1 THEN DayFirstAt(s, i) ELSE YearFirstAt(s, i)
        starts == {i \in 1..Len(s) : At(i) # <<>>}
    IN  IF starts = {} THEN <<>>
        ELSE At(CHOOSE i \in starts : \A j \in starts : i <= j)

\* every two-digit year taken for one of this century
ExpandYear_this_century(year) == IF year < 100 THEN year + 2000 ELSE year

\* the two-digit years: above 50 of the last century, the others of this one
ExpandYear(year) ==
    IF year < 100 THEN (IF year > 50 THEN year + 1900 ELSE year + 2000) ELSE year

\* the return value for the groups of a numeric pattern
FromNumeric(parts) ==
    LET year_first == Len(parts[1]) = 4
        day == int(IF year_first THEN parts[3] ELSE parts[1])
        month == int(parts[2])
        year == ExpandYear(int(IF year_first THEN parts[1] ELSE parts[3]))
    IN  Pad2(day) \o "/" \o Pad2(month) \o "/" \o str(year)

\* \b at the gap before position i
WordBoundary(s, i) == IsWord(CharAt(s, i - 1)) # IsWord(CharAt(s, i))

\* re.search(r'(\d{1,2})(st|nd|rd|th)?', s).group(1), "" for no match
SearchDay(s) ==
    LET starts == {i \in 1..Len(s) : IsDigit(Char(s, i))}
    IN  IF starts = {} THEN ""
        ELSE LET i == CHOOSE i \in starts : \A j \in starts : i <= j
             IN  SubSeq(s, i, i + DigitRun(s, i, 2) - 1)

\* re.search(month_pattern, s).group(0) as its entry of month_names, 0 for no
\* match
SearchMonth(s) ==
    LET starts == {i \in 1..Len(s) : MonthAt(s, i, 1..Len(month_names)) # {}}
    IN  IF starts = {} THEN 0
        ELSE LET i == CHOOSE i \in starts : \A j \in starts : i <= j
                 names == MonthAt(s, i, 1..Len(month_names))
             IN  CHOOSE n \in names : \A o \in names : n <= o

\* re.search(r'\b(19|20)\d{2}\b', s).group(0), "" for no match
SearchYear(s) ==
    LET starts == {i \in 1..Len(s) :
                      /\ LiteralAt(s, i, "19") \/ LiteralAt(s, i, "20")
                      /\ DigitsAt(s, i, 4)
                      /\ WordBoundary(s, i)
                      /\ WordBoundary(s, i + 4)}
    IN  IF starts = {} THEN ""
        ELSE LET i == CHOOSE i \in starts : \A j \in starts : i <= j
             IN  SubSeq(s, i, i + 3)

\* lines 49-54: the date the first format parses, printed; each attempt is
\* <<the string to return>>, or <<>> when it does not apply
ByFormat(date_string, libc, fmt) ==
    IF fmt = 0 THEN <<>>
    ELSE <<strftime(strptime(date_string, formats[fmt]), libc)>>

\* the groups of the written pattern with the month put first
ByWritten_month_first(written) ==
    IF written = <<>> THEN <<>>
    ELSE <<Pad2(written[2]) \o "/" \o Pad2(written[1]) \o "/" \o written[3]>>

\* lines 66-72: the groups of the written pattern
ByWritten(written) ==
    IF written = <<>> THEN <<>>
    ELSE <<Pad2(written[1]) \o "/" \o Pad2(written[2]) \o "/" \o written[3]>>

\* lines 82-101: the groups of a numeric pattern
ByNumeric(parts) == IF parts = <<>> THEN <<>> ELSE <<FromNumeric(parts)>>

\* lines 108-113: day, month and year found separately
BySeparate(day_match, month_match, year_match) ==
    IF day_match # "" /\ month_match # 0 /\ year_match # ""
    THEN <<Pad2(int(day_match)) \o "/" \o Pad2(month_names[month_match][2])
               \o "/" \o str(int(year_match))>>
    ELSE <<>>

\* the result of the first attempt that applies
FirstOf(attempts) ==
    attempts[Least({i \in 1..Len(attempts) : attempts[i] # <<>>})][1]

\* normalize_date from line 46 on, for the stripped and lower-cased string;
\* what line 117 returns is that string
NormalizeCleaned(cleaned, libc) ==
    FirstOf(<<ByFormat(cleaned, libc, FirstFormat(cleaned)),
              ByWritten(SearchWritten(cleaned)),
              ByNumeric(SearchNumeric(cleaned, 1)),
              ByNumeric(SearchNumeric(cleaned, 2)),
              BySeparate(SearchDay(cleaned), SearchMonth(cleaned),
                         SearchYear(cleaned)),
              <<cleaned>>>>)

\* normalize_date of a str, on a platform with the given C library; no step of
\* it raises on a str, so the handler of line 119 is never entered
normalize_date(date_string, libc) ==
    IF date_string = "" THEN ""
    ELSE NormalizeCleaned(lower(strip(date_string)), libc)

\* the field names process_data_object lists as dates
date_fields ==
    {"dateOfBirth", "dateOfDeath", "deceasedDateOfBirth", "deceasedDateOfDeath",
     "deceasedCertificateIssued", "funeralDateIssued", "benefitStartDate",
     "benefitEndDate", "applicationDate", "registrationDate"}

\* whether process_data_object takes the field for a date
IsDateField(field) ==
    \/ \E date_key \in {"date", "birth", "death", "issued"} :
           Contains(lower(field), date_key)
    \/ \E date_key \in date_fields : Contains(field, date_key)

\* a field whose date was rewritten: the dict gains the key original_value
NormalizedValue(normalized, reasoning, value) ==
    [kind |-> "dict", value |-> normalized, reasoning |-> reasoning,
     original_value |-> value]

\* the fields the loop of process_data_object passes to normalize_date
\* (lines 144-153), each with what normalize_date returns for its value
Normalizations(data, libc) ==
    [field \in {f \in DOMAIN data : data[f].kind = "dict" /\ IsDateField(f)} |->
        normalize_date(data[field].value, libc)]

\* every field passed to normalize_date, whether its value changes or not
Rewritten_every_date(data, normalized) == DOMAIN normalized

\* of these, the fields the loop rewrites (line 154)
Rewritten(data, normalized) ==
    {field \in DOMAIN normalized : normalized[field] # data[field].value}

\* lines 154-160 with the normalized values at hand: what is returned, or
\* raised = TRUE for the KeyError of line 158 on a rewritten field that has
\* no reasoning
Processed(data, normalized) ==
    IF \E field \in Rewritten(data, normalized) : data[field].reasoning = Absent
    THEN [raised |-> TRUE, result |-> <<>>]
    ELSE [raised |-> FALSE,
          result |->
            [field \in DOMAIN data |->
                IF field \in Rewritten(data, normalized)
                THEN NormalizedValue(normalized[field],
                         data[field].reasoning \o " (Normalized from: "
                             \o data[field].value \o ")",
                         data[field].value)
                ELSE data[field]]]

\* process_data_object(data) on a dict of fields
process_data_object(data, libc) == Processed(data, Normalizations(data, libc))

\* the fields of the argument left as they were: what a copy of every field
\* dict would give
ArgumentAfter_deep_copy(data, order, normalized) == data

\* where the loop stops: the place in order, the order of the items of data,
\* of the first rewritten field that has no reasoning, Len(order) + 1 when
\* there is none
StopsAt(data, order, normalized) ==
    CHOOSE n \in 1..(Len(order) + 1) :
        /\ n <= Len(order) =>
              order[n] \in Rewritten(data, normalized) /\ data[order[n]].reasoning = Absent
        /\ \A k \in 1..(n - 1) :
              order[k] \in Rewritten(data, normalized) => data[order[k]].reasoning # Absent

\* the dict passed as data once the call is over.  data.copy() of line 140
\* copies the dict and not the field dicts in it, so lines 156-158 write to
\* the field dicts of the argument: the fields rewritten before the loop
\* stops are in it as they are returned, and the field line 158 raises on
\* has its value and original_value written (156-157) and no reasoning
ArgumentAfter(data, order, normalized) ==
    [field \in DOMAIN data |->
        LET n == CHOOSE k \in 1..Len(order) : order[k] = field
        IN  IF field \notin Rewritten(data, normalized)
               \/ n > StopsAt(data, order, normalized)
            THEN data[field]
            ELSE IF n = StopsAt(data, order, normalized)
            THEN NormalizedValue(normalized[field], Absent, data[field].value)
            ELSE NormalizedValue(normalized[field],
                     data[field].reasoning \o " (Normalized from: "
                         \o data[field].value \o ")",
                     data[field].value)]

-----------------------------------------------------------------------------
(* The date normalizer as a state machine: one call at a time *)

\* the days, months, separators and years the numeric inputs are built from
DayTexts == {"1", "17", "31", "00"}

MonthTexts == {"6", "06", "02", "13"}

Separators == {"/", "-"}

YearTexts == {"23", "85", "50", "51", "2025", "1985", "0020", "0999"}

NumericDates ==
    {d \o s \o m \o s \o y :
        d \in DayTexts, s \in Separators, m \in MonthTexts, y \in YearTexts}

\* the other inputs: written dates, dates inside a sentence, no date at all
OtherDates ==
    {"", " ", " Unknown ", "Seventeenth June 2025", "17 June 2025",
     "June 17, 2025", "jun 17, 2025", "17 jun 2025", "2025-06-17", "2025/06/17",
     "2025/6/7", "1/2/123", "first june 0020", "twenty first june 2025",
     "21st March 1999", "died 5 may 2020", "decided 5 may 2020", "29/02/2023",
     "29/02/2024", "17.06.2025", "not known", "3 May 1999a", " 17/06/2025 ",
     "17/06/20255", "London"}

\* the letter cases a written date is given in: as the tables have it, with
\* a capital at the head of the day and of the month, in capitals
LetterCases == {"lower", "capitalized", "upper"}

RECURSIVE upperFrom(_, _, _)
\* the characters i..j of s in upper case, one half after the other
upperFrom(s, i, j) ==
    IF i > j THEN ""
    ELSE IF i = j THEN UpperChar(Char(s, i))
    ELSE upperFrom(s, i, (i + j) \div 2) \o upperFrom(s, ((i + j) \div 2) + 1, j)

\* a word of the tables in the given letter case
Cased(word, case) ==
    IF case = "upper" THEN upperFrom(word, 1, Len(word))
    ELSE IF case = "capitalized"
    THEN UpperChar(Char(word, 1)) \o SubSeq(word, 2, Len(word))
    ELSE word

\* "<day> <month> <year>" for entry dn of day_names and entry mn of month_names
WrittenDate(dn, mn, year, case) ==
    Cased(day_names[dn][1], case) \o " " \o Cased(month_names[mn][1], case)
        \o " " \o year

\* the years the written dates are given with
WrittenYears == {"2025", "1999", "0020"}

\* every day entry with every month entry in every letter case, with one
\* year; the first and the last entry of each table with the other years
WrittenDates ==
    {WrittenDate(dn, mn, "2025", case) :
        dn \in 1..Len(day_names), mn \in 1..Len(month_names), case \in LetterCases}
    \cup {WrittenDate(dn, mn, year, case) :
              dn \in {1, Len(day_names)}, mn \in {1, Len(month_names)},
              year \in WrittenYears, case \in LetterCases}

DateStrings == NumericDates \cup OtherDates \cup WrittenDates

\* the dict whose items are the given <<key, value>> pairs
DictOf(items) ==
    [key \in {item[1] : item \in items} |-> (CHOOSE item \in items : item[1] = key)[2]]

\* the fields the data objects handed to process_data_object are made of
DateItems ==
    { <<"dateOfDeath", DictValue("Seventeenth June 2025", "From the body")>>,
      <<"deceasedDateOfDeath", DictValue("17/06/2025", "From the body")>>,
      <<"date of birth", DictValue("1-2-51", Absent)>>,
      <<"deceasedFirstName", DictValue("1-2-51", "From the header")>>,
      <<"placeOfDeath", DictValue("London", Absent)>>,
      <<"funeralDateIssued", StrValue("1-2-20")>>,
      <<"_fileType", DictValue("death certificate", "Detected")>>,
      <<"_dateIssued", DictValue("1-2-20", "Read from the stamp")>> }

\* the dicts of at most MaxItems of these fields
DataObjects ==
    {DictOf(items) : items \in {d \in SUBSET DateItems : Cardinality(d) <= MaxItems}}

\* the orders the items of a dict can have been inserted in
Orders(data) ==
    {order \in [1..Cardinality(DOMAIN data) -> DOMAIN data] :
        \A i, j \in 1..Len(order) : i # j => order[i] # order[j]}

NoDateCall ==
    [op |-> "none", date_string |-> "", libc |-> "glibc", data |-> <<>>,
     order |-> <<>>, returned |-> "", raised |-> FALSE, result |-> <<>>,
     argument |-> <<>>]

InitDate ==
    /\ pc = "idle"
    /\ req = [handler |-> "extract_form_data", use_web_search |-> FALSE]
    /\ state = initial_state
    /\ rag_db = "None"
    /\ tavily_key = FALSE
    /\ router_out = NoRouterCall
    /\ calls = <<>>
    /\ reply = NoReply
    /\ mapio = NoDateCall

\* a call of DateNormalizer.normalize_date
NormalizeDate ==
    /\ mapio.op = "none"
    /\ \E date_string \in DateStrings, libc \in Libcs :
        mapio' = [NoDateCall EXCEPT
                    !.op = "normalize_date",
                    !.date_string = date_string,
                    !.libc = libc,
                    !.returned = normalize_date(date_string, libc)]
    /\ UNCHANGED wfvars

\* the call of process_data_object and what came of it: what it returned
\* or that it raised, and the dict it was given as the call left it
Processing(data, order, libc, normalized) ==
    [NoDateCall EXCEPT !.op = "process_data_object", !.data = data,
                       !.order = order, !.libc = libc,
                       !.raised = Processed(data, normalized).raised,
                       !.result = Processed(data, normalized).result,
                       !.argument = ArgumentAfter(data, order, normalized)]

\* a call of DateNormalizer.process_data_object on a dict with the items of
\* data in the given order
ProcessDataObject ==
    /\ mapio.op = "none"
    /\ \E data \in DataObjects, libc \in Libcs :
        \E order \in Orders(data) :
            mapio' = Processing(data, order, libc, Normalizations(data, libc))
    /\ UNCHANGED wfvars

\* the caller has taken what the call returned; the normalizer keeps no state
\* between calls
DateReturn ==
    /\ mapio.op # "none"
    /\ mapio' = NoDateCall
    /\ UNCHANGED wfvars

NextDate == NormalizeDate \/ ProcessDataObject \/ DateReturn

SpecDate == InitDate /\ [][NextDate]_vars

-----------------------------------------------------------------------------
(* C12: the keys that begin with an underscore *)

\* C12: every key of the input that begins with '_' is in what
\* map_extracted_data and process_data_object return, with the value it had:
\* the mapper does not rename it and date normalization does not rewrite it,
\* whatever its name contains
C12_MetadataKeysUntouched ==
    /\ mapio.op = "map_extracted_data" =>
        \A i \in 1..Len(mapio.extracted_data) :
            startswith(ItemKey(i), "_") =>
                /\ ItemKey(i) \in DOMAIN Output
                /\ Output[ItemKey(i)] = ItemValue(i)
    /\ mapio.op = "process_data_object" /\ ~mapio.raised =>
        \A field \in DOMAIN mapio.data :
            startswith(field, "_") =>
                /\ field \in DOMAIN mapio.result
                /\ mapio.result[field].value = mapio.data[field].value
                /\ mapio.result[field].reasoning = mapio.data[field].reasoning
                /\ DOMAIN mapio.result[field] = DOMAIN mapio.data[field]

-----------------------------------------------------------------------------
(* The document classifier: detect_document_type *)

\* self.document_signatures in registration order; a pattern is the sequence
\* of the words that its \s+ join, and fields_mapping keeps its item order
document_signatures ==
    << [doc_type |-> "death_certificate",
        patterns |-> << <<"death", "certificate">>, <<"certificate", "of", "death">>,
                        <<"cause", "of", "death">>, <<"date", "of", "death">>,
                        <<"registration", "of", "death">> >>,
        fields_mapping |-> << <<"dateOfDeath", "deceasedDateOfDeath">>,
                              <<"dateOfBirth", "deceasedDateOfBirth">>,
                              <<"firstName", "deceasedFirstName">>,
                              <<"lastName", "deceasedLastName">>,
                              <<"name", "deceasedFirstName">>,
                              <<"surname", "deceasedLastName">>,
                              <<"placeOfDeath", "deceasedPlaceOfDeath">> >>],
       [doc_type |-> "birth_certificate",
        patterns |-> << <<"birth", "certificate">>, <<"certificate", "of", "birth">>,
                        <<"date", "of", "birth">>, <<"registration", "of", "birth">> >>,
        fields_mapping |-> << <<"dateOfBirth", "dateOfBirth">>,
                              <<"firstName", "firstName">>,
                              <<"lastName", "lastName">>,
                              <<"name", "firstName">>,
                              <<"surname", "lastName">>,
                              <<"placeOfBirth", "placeOfBirth">> >>],
       [doc_type |-> "funeral_invoice",
        patterns |-> << <<"funeral", "invoice">>, <<"funeral", "director">>,
                        <<"funeral", "bill">>, <<"funeral", "service">>,
                        <<"cremation">>, <<"burial">> >>,
        fields_mapping |-> << <<"invoiceNumber", "funeralEstimateNumber">>,
                              <<"date", "funeralDateIssued">>,
                              <<"dateIssued", "funeralDateIssued">>,
                              <<"total", "funeralTotalEstimatedCost">>,
                              <<"amount", "funeralTotalEstimatedCost">>,
                              <<"cost", "funeralTotalEstimatedCost">>,
                              <<"description", "funeralDescription">>,
                              <<"services", "funeralDescription">> >>],
       [doc_type |-> "benefit_letter",
        patterns |-> << <<"benefit", "letter">>,
                        <<"department", "for", "work", "and", "pensions">>,
                        <<"dwp">>, <<"universal", "credit">>,
                        <<"pension", "credit">>, <<"income", "support">> >>,
        fields_mapping |-> << <<"benefitType", "benefitType">>,
                              <<"startDate", "benefitStartDate">>,
                              <<"endDate", "benefitEndDate">>,
                              <<"amount", "benefitAmount">>,
                              <<"reference", "benefitReference">> >>] >>

RECURSIVE PatternEnd(_, _, _, _)
\* where the match of the words k.. of a pattern ends when the k-th word is
\* sought at position i of s, 0 when there is no match there
PatternEnd(s, i, pattern, k) ==
    IF ~LiteralAt(s, i, pattern[k]) THEN 0
    ELSE LET after == i + Len(pattern[k])
         IN  IF k = Len(pattern) THEN after
             ELSE IF SpaceRun(s, after) = 0 THEN 0
             ELSE PatternEnd(s, after + SpaceRun(s, after), pattern, k + 1)

RECURSIVE FindAllFrom(_, _, _)
RECURSIVE FindAllAt(_, _, _)
\* len(re.findall(pattern, s)) for the part of s from position i on: the
\* matches are taken from the left and do not overlap
FindAllFrom(s, i, pattern) ==
    FindAllAt(s, Least({j \in i..Len(s) : PatternEnd(s, j, pattern, 1) # 0}), pattern)

\* the same with the position of the leftmost match at hand, 0 for none
FindAllAt(s, found, pattern) ==
    IF found = 0 THEN 0
    ELSE 1 + FindAllFrom(s, PatternEnd(s, found, pattern, 1), pattern)

RECURSIVE ScoreFrom(_, _, _)
\* the score the inner loop gives a signature, from its n-th pattern on
ScoreFrom(combined, patterns, n) ==
    IF n > Len(patterns) THEN 0
    ELSE FindAllFrom(combined, 1, patterns[n]) * 2 + ScoreFrom(combined, patterns, n + 1)

RECURSIVE BestMatch_last_wins(_, _, _, _)
\* the outer loop with >= for >: a later type takes over an equal score
BestMatch_last_wins(combined, n, best_match, highest_score) ==
    IF n > Len(document_signatures) THEN <<best_match, highest_score>>
    ELSE LET score == ScoreFrom(combined, document_signatures[n].patterns, 1)
         IN  IF score >= highest_score /\ score > 0
             THEN BestMatch_last_wins(combined, n + 1, document_signatures[n].doc_type, score)
             ELSE BestMatch_last_wins(combined, n + 1, best_match, highest_score)

RECURSIVE BestMatch(_, _, _, _)
\* the outer loop from the n-th signature on: <<best_match, highest_score>>,
\* with Absent for None
BestMatch(combined, n, best_match, highest_score) ==
    IF n > Len(document_signatures) THEN <<best_match, highest_score>>
    ELSE LET score == ScoreFrom(combined, document_signatures[n].patterns, 1)
         IN  IF score > highest_score
             THEN BestMatch(combined, n + 1, document_signatures[n].doc_type, score)
             ELSE BestMatch(combined, n + 1, best_match, highest_score)

\* the fallback that reads the filename alone, with birth looked for first
FilenameFallback_birth_first(filename_lower) ==
    IF Contains(filename_lower, "birth") THEN "birth_certificate"
    ELSE IF Contains(filename_lower, "death") THEN "death_certificate"
    ELSE IF \E term \in {"invoice", "bill", "funeral", "director"} :
                Contains(filename_lower, term)
    THEN "funeral_invoice"
    ELSE IF \E term \in {"benefit", "letter", "dwp", "pension"} :
                Contains(filename_lower, term)
    THEN "benefit_letter"
    ELSE "unknown"

\* the fallback that reads the filename alone
FilenameFallback(filename_lower) ==
    IF Contains(filename_lower, "death") THEN "death_certificate"
    ELSE IF Contains(filename_lower, "birth") THEN "birth_certificate"
    ELSE IF \E term \in {"invoice", "bill", "funeral", "director"} :
                Contains(filename_lower, term)
    THEN "funeral_invoice"
    ELSE IF \E term \in {"benefit", "letter", "dwp", "pension"} :
                Contains(filename_lower, term)
    THEN "benefit_letter"
    ELSE "unknown"

\* detect_document_type(text, filename) on two strs
detect_document_type(text, filename) ==
    IF text = "" /\ filename = "" THEN "unknown"
    ELSE LET text_lower == lower(text)
             filename_lower == lower(filename)
             combined == text_lower \o " " \o filename_lower
             best == BestMatch(combined, 1, Absent, 0)
         IN  IF best[1] = Absent \/ best[2] < 2
             THEN FilenameFallback(filename_lower)
             ELSE best[1]

\* the document texts and file names of the calls
DocumentTexts ==
    {"",
     "CERTIFICATE OF DEATH\nName: John Smith\nDate of Death: 10/01/2023",
     "Death certificate. Death  certificate. Cause of death: old age",
     "date of death and date of birth",
     "Date of birth, then date of death",
     "Birth certificate; date of birth; cause of death",
     "FUNERAL INVOICE\nServices: Cremation, Casket",
     "funeral service, burial; death certificate",
     "cremation. date of birth",
     "income support and burial",
     "DEPARTMENT FOR WORK AND PENSIONS\nBenefit: Universal Credit",
     "This document has no clear indicators",
     "copy of the death"}

Filenames ==
    {"", "death_certificate.pdf", "birth.pdf", "invoice_funeral_smith.pdf",
     "dwp_benefit_letter.pdf", "unknown_document.pdf", "Birth_and_Death.PDF",
     "bill_letter.pdf", "certificate.pdf", "Pension Credit.txt"}

-----------------------------------------------------------------------------
(* The document classifier: normalize_fields and enhance_extraction_with_context *)

RECURSIVE titleFrom(_, _)
titleFrom(s, i) ==
    IF i > Len(s) THEN ""
    ELSE LET c == Char(s, i)
         IN  (IF ~IsLetter(c) THEN c
              ELSE IF IsLetter(CharAt(s, i - 1)) THEN LowerChar(c)
              ELSE IF c \in LowerChars THEN UpperOf[c] ELSE c)
             \o titleFrom(s, i + 1)

\* str.title
title(s) == titleFrom(s, 1)

RECURSIVE replaceFrom(_, _, _, _)
replaceFrom(s, old, new, i) ==
    IF i > Len(s) THEN ""
    ELSE (IF Char(s, i) = old THEN new ELSE Char(s, i)) \o replaceFrom(s, old, new, i + 1)

\* s.replace(old, new) for a one-character old
replace(s, old, new) == replaceFrom(s, old, new, 1)

\* the two metadata fields normalize_fields starts its result with
MetadataFields(document_type) ==
    LET shown == replace(document_type, "_", " ")
    IN  Put(Put(<<>>, "_fileType",
                DictValue(shown, "Detected document type based on content and patterns")),
            "_documentType",
            DictValue(title(shown),
                      "Classified as " \o title(shown) \o " based on content analysis"))

\* the fields_mapping of a document type, <<>> for a type without signature
FieldsMapping(document_type) ==
    LET known == {n \in 1..Len(document_signatures) :
                     document_signatures[n].doc_type = document_type}
    IN  IF known = {} THEN <<>>
        ELSE document_signatures[CHOOSE n \in known : TRUE].fields_mapping

\* the destination of the first item of field_mappings whose source is the
\* field but for case, the field itself when there is none
LegacyName(field_mappings, field) ==
    LET same == {n \in 1..Len(field_mappings) :
                    lower(field_mappings[n][1]) = lower(field)}
    IN  IF same = {} THEN field
        ELSE field_mappings[CHOOSE n \in same : \A o \in same : n <= o][2]

\* one iteration of the fallback loop of normalize_fields
LegacyEntry(result, mapped_data, field_mappings, field, field_data) ==
    IF field \in DOMAIN result \/ field \in DOMAIN mapped_data THEN result
    ELSE IF field_data.kind # "dict" \/ startswith(field, "_")
    THEN Put(result, field, field_data)
    ELSE Put(result, LegacyName(field_mappings, field), field_data)

RECURSIVE LegacyResults(_, _, _, _, _)
\* the result dict after the fallback loop has seen the first n items of data
LegacyResults(merged, mapped_data, field_mappings, data, n) ==
    IF n = 0 THEN merged
    ELSE LegacyEntry(LegacyResults(merged, mapped_data, field_mappings, data, n - 1),
                     mapped_data, field_mappings, data[n][1], data[n][2])

\* what normalize_fields makes of the dict the field mapper returned: the
\* metadata fields under it, the fallback loop over it
LegacyMerge(mapped_data, data, document_type) ==
    LET merged == mapped_data @@ MetadataFields(document_type)
    IN  IF \E n \in 1..Len(document_signatures) :
               document_signatures[n].doc_type = document_type
        THEN LegacyResults(merged, mapped_data, FieldsMapping(document_type),
                           data, Len(data))
        ELSE merged

\* normalize_fields(data, document_type, context_data); data is the sequence
\* of the items of the dict
normalize_fields(data, document_type, context_data) ==
    LegacyMerge(map_extracted_data(data, document_type, context_data),
                data, document_type)

\* the value of a metadata field of data as a document type, "" when data
\* has no such field
TypeFrom(data, key) ==
    LET at == {n \in 1..Len(data) : data[n][1] = key}
    IN  IF at = {} THEN ""
        ELSE lower(replace(data[CHOOSE n \in at : TRUE][2].value, " ", "_"))

\* the context written over what the result holds
ContextFields_overwrites(result, context_data) ==
    LET deceased_name == context_data.deceasedName
        name_parts == split(deceased_name)
        with_name ==
            IF deceased_name # Absent
            THEN Put(Put(result, "deceasedName",
                         DictValue(deceased_name, "Added from context data")),
                     "deceasedLastName",
                     DictValue(name_parts[Len(name_parts)],
                               "Split from deceased name in context"))
            ELSE result
    IN  IF context_data.relationshipToDeceased # Absent
        THEN Put(with_name, "relationshipToDeceased",
                 DictValue(context_data.relationshipToDeceased,
                           "Using the relationship provided in context"))
        ELSE with_name

\* the fields the context adds to the mapped result: only under keys that
\* the result does not hold
ContextFields(result, context_data) ==
    LET deceased_name == context_data.deceasedName
        name_parts == split(deceased_name)
        named == deceased_name # Absent /\ deceased_name # ""
        splits == named /\ Contains(deceased_name, " ")
        with_name ==
            IF named /\ "deceasedName" \notin DOMAIN result
            THEN Put(result, "deceasedName",
                     DictValue(deceased_name, "Added from context data"))
            ELSE result
        with_first ==
            IF splits /\ "deceasedFirstName" \notin DOMAIN with_name
            THEN Put(with_name, "deceasedFirstName",
                     DictValue(join(SubSeq(name_parts, 1, Len(name_parts) - 1)),
                               "Split from deceased name in context"))
            ELSE with_name
        with_last ==
            IF splits /\ "deceasedLastName" \notin DOMAIN with_first
            THEN Put(with_first, "deceasedLastName",
                     DictValue(name_parts[Len(name_parts)],
                               "Split from deceased name in context"))
            ELSE with_first
        relationship == context_data.relationshipToDeceased
    IN  IF /\ relationship # Absent /\ relationship # ""
           /\ "relationshipToDeceased" \notin DOMAIN with_last
        THEN Put(with_last, "relationshipToDeceased",
                 DictValue(relationship, "Using the relationship provided in context"))
        ELSE with_last

\* enhance_extraction_with_context(data, context_data): data is the sequence
\* of the items of the dict and what is returned is a dict; with no context
\* the dict of data itself comes back.  The contexts of the calls hold no
\* _documentType and the metadata fields of data are dicts
enhance_extraction_with_context(data, context_data) ==
    IF context_data = NoContext THEN DictOf({data[n] : n \in 1..Len(data)})
    ELSE LET from_file == TypeFrom(data, "_fileType")
             document_type == IF from_file # "" THEN from_file
                              ELSE TypeFrom(data, "_documentType")
         IN  ContextFields(map_extracted_data(data, document_type, context_data),
                           context_data)

-----------------------------------------------------------------------------
(* The document classifier as a state machine: one call at a time *)

\* the fields the extracted data of the calls is made of
DocItems ==
    { <<"name", DictValue("Brian Hughes", "From the header")>>,
      <<"dateOfDeath", DictValue("Seventeenth June 2025", "From the body")>>,
      <<"deceasedLastName", DictValue("Smith", "From the header")>>,
      <<"cause", DictValue("Natural causes", "From the body")>>,
      <<"surname", StrValue("Hughes")>>,
      <<"_fileType", DictValue("death certificate", "Detected")>> }

\* dicts of at most MaxItems of them, as the sequence of their items
DocData ==
    {d \in UNION {[1..n -> DocItems] : n \in 0..MaxItems} :
        \A i, j \in 1..Len(d) : i # j => d[i][1] # d[j][1]}

\* the document types normalize_fields is called with
DocDocumentTypes == {"death_certificate", "unknown"}

\* the documents extract_form_data reads: <<content, fname>>
Documents ==
    { <<"CERTIFICATE OF DEATH\nName: John Smith\nDate of Death: 10/01/2023",
        "death_certificate.pdf">>,
      <<"This document has no clear indicators", "unknown_document.pdf">> }

NoDocCall ==
    [op |-> "none", text |-> "", filename |-> "", data |-> <<>>,
     document_type |-> "", context_data |-> NoContext, libc |-> "glibc",
     mapped |-> <<>>, result |-> <<>>, raised |-> FALSE, final |-> <<>>]

InitDoc ==
    /\ pc = "idle"
    /\ req = [handler |-> "extract_form_data", use_web_search |-> FALSE]
    /\ state = initial_state
    /\ rag_db = "None"
    /\ tavily_key = FALSE
    /\ router_out = NoRouterCall
    /\ calls = <<>>
    /\ reply = NoReply
    /\ mapio = NoDocCall

\* a call of DocumentClassifier.detect_document_type
DetectDocumentType ==
    /\ mapio.op = "none"
    /\ \E text \in DocumentTexts, filename \in Filenames :
        mapio' = [NoDocCall EXCEPT
                    !.op = "detect_document_type",
                    !.text = text,
                    !.filename = filename,
                    !.document_type = detect_document_type(text, filename)]
    /\ UNCHANGED wfvars

\* normalize_fields from line 157 on, with what the field mapper returned
Normalizing(data, document_type, context_data, mapped_data) ==
    [NoDocCall EXCEPT !.op = "normalize_fields",
                      !.data = data,
                      !.document_type = document_type,
                      !.context_data = context_data,
                      !.mapped = mapped_data,
                      !.result = LegacyMerge(mapped_data, data, document_type)]

\* a call of DocumentClassifier.normalize_fields; mapped is what the field
\* mapper returned to it
NormalizeFields ==
    /\ mapio.op = "none"
    /\ \E data \in DocData, document_type \in DocDocumentTypes,
          context_data \in MapContexts :
        mapio' = Normalizing(data, document_type, context_data,
                     map_extracted_data(data, document_type, context_data))
    /\ UNCHANGED wfvars

\* a call of DocumentClassifier.enhance_extraction_with_context
EnhanceExtractionWithContext ==
    /\ mapio.op = "none"
    /\ \E data \in DocData, context_data \in Contexts :
        mapio' = [NoDocCall EXCEPT
                    !.op = "enhance_extraction_with_context",
                    !.data = data,
                    !.context_data = context_data,
                    !.result = enhance_extraction_with_context(data, context_data)]
    /\ UNCHANGED wfvars

\* line 2568: the dates of the renamed fields are normalized
WithDates(document, data, libc, doc_type, normalized_data, final_data) ==
    [NoDocCall EXCEPT !.op = "extract_form_data",
                      !.text = document[1],
                      !.filename = document[2],
                      !.data = data,
                      !.libc = libc,
                      !.document_type = doc_type,
                      !.result = normalized_data,
                      !.raised = final_data.raised,
                      !.final = final_data.result]

\* line 2565: the fields are renamed, without a context
WithFields(document, data, libc, doc_type, normalized_data) ==
    WithDates(document, data, libc, doc_type, normalized_data,
              process_data_object(normalized_data, libc))

\* line 2561: the type of the document is detected
WithType(document, data, libc, doc_type) ==
    WithFields(document, data, libc, doc_type,
               normalize_fields(data, doc_type, NoContext))

\* the steps extract_form_data takes with the fields read from one document:
\* the type is detected, the fields are renamed without a context, the dates
\* are normalized
ExtractFormData ==
    /\ mapio.op = "none"
    /\ \E document \in Documents, data \in DocData, libc \in Libcs :
        mapio' = WithType(document, data, libc,
                          detect_document_type(document[1], document[2]))
    /\ UNCHANGED wfvars

\* the caller has taken what the call returned; the classifier keeps no
\* state between calls
DocReturn ==
    /\ mapio.op # "none"
    /\ mapio' = NoDocCall
    /\ UNCHANGED wfvars

NextDoc ==
    \/ DetectDocumentType
    \/ NormalizeFields
    \/ EnhanceExtractionWithContext
    \/ ExtractFormData
    \/ DocReturn

SpecDoc == InitDoc /\ [][NextDoc]_vars

-----------------------------------------------------------------------------
(* C13, C14: the document type detected *)

\* the text the patterns of the call on record are matched against
Combined == lower(mapio.text) \o " " \o lower(mapio.filename)

\* twice the number of matches of the patterns of the n-th registered type
Score(n) == ScoreFrom(Combined, document_signatures[n].patterns, 1)

Registered == 1..Len(document_signatures)

\* the registered types that no other type outscores
TopScored == {n \in Registered : \A o \in Registered : Score(o) <= Score(n)}

\* C13: when some type scores 2 or more, detect_document_type returns the
\* type with the highest score, and of several types with that score the one
\* registered first
C13_HighestScoreFirstRegistered ==
    mapio.op = "detect_document_type" /\ (mapio.text # "" \/ mapio.filename # "") =>
        \A n \in TopScored :
            Score(n) >= 2 /\ (\A o \in TopScored : n <= o) =>
                mapio.document_type = document_signatures[n].doc_type

\* C13 witness: two types share the highest score, which is 2 or more, and
\* the call returned the one registered first
C13_Witness ==
    /\ mapio.op = "detect_document_type"
    /\ Cardinality(TopScored) >= 2
    /\ \E n \in TopScored :
        /\ Score(n) >= 2
        /\ mapio.document_type = document_signatures[n].doc_type
        /\ \A o \in TopScored : n <= o

DocumentTypeNames ==
    {"death_certificate", "birth_certificate", "funeral_invoice", "benefit_letter",
     "unknown"}

\* some of the terms occurs in the lower-cased file name of the call
Named(terms) == \E term \in terms : Contains(lower(mapio.filename), term)

\* C14: detect_document_type returns one of the five type names; when no type
\* scores 2 the file name alone decides: death before birth before
\* invoice/bill/funeral/director before benefit/letter/dwp/pension, unknown
\* when none of them occurs, and unknown when text and file name are empty
C14_FallbackByFilename ==
    mapio.op = "detect_document_type" =>
        /\ mapio.document_type \in DocumentTypeNames
        /\ mapio.text = "" /\ mapio.filename = "" => mapio.document_type = "unknown"
        /\ (\A n \in Registered : Score(n) < 2) =>
            LET death == Named({"death"})
                birth == Named({"birth"})
                invoice == Named({"invoice", "bill", "funeral", "director"})
                benefit == Named({"benefit", "letter", "dwp", "pension"})
            IN  /\ mapio.document_type = "death_certificate" <=> death
                /\ mapio.document_type = "birth_certificate" <=> ~death /\ birth
                /\ mapio.document_type = "funeral_invoice"
                       <=> ~death /\ ~birth /\ invoice
                /\ mapio.document_type = "benefit_letter"
                       <=> ~death /\ ~birth /\ ~invoice /\ benefit
                /\ mapio.document_type = "unknown"
                       <=> ~death /\ ~birth /\ ~invoice /\ ~benefit

\* C14 witness: no type has scored, the file name holds both birth and
\* death, and the call returned death_certificate
C14_Witness ==
    /\ mapio.op = "detect_document_type"
    /\ \A n \in Registered : Score(n) < 2
    /\ Named({"birth"}) /\ Named({"death"})
    /\ mapio.text # ""
    /\ mapio.document_type = "death_certificate"

-----------------------------------------------------------------------------
(* C15: the fallback loop of normalize_fields *)

\* C15: the legacy rename table is kept for the fields the field mapper did
\* not map, so what normalize_fields returns holds every entry the mapper
\* wrote, the split first name included, with the value the mapper gave it
C15_LegacyKeepsMapped ==
    mapio.op = "normalize_fields" =>
        \A field \in DOMAIN mapio.mapped :
            /\ field \in DOMAIN mapio.result
            /\ mapio.result[field] = mapio.mapped[field]

-----------------------------------------------------------------------------
(* C16: what the context may write *)

\* the dict of the extracted data of the call on record
DataDict == DictOf({mapio.data[n] : n \in 1..Len(mapio.data)})

\* the document type enhance_extraction_with_context reads from data
DataType ==
    IF TypeFrom(mapio.data, "_fileType") # "" THEN TypeFrom(mapio.data, "_fileType")
    ELSE TypeFrom(mapio.data, "_documentType")

\* the keys the context can write
ContextKeys ==
    {"deceasedName", "deceasedFirstName", "deceasedLastName", "relationshipToDeceased"}

\* C16 as stated: enhance_extraction_with_context changes and removes no
\* field of the extracted data; every entry of the input is in the result
\* with its value
C16_InputEntriesUnchanged ==
    mapio.op = "enhance_extraction_with_context" =>
        \A field \in DOMAIN DataDict :
            /\ field \in DOMAIN mapio.result
            /\ mapio.result[field] = DataDict[field]

\* C16: without a context the extracted data comes back as it is; with one,
\* the result holds every entry of what the field mapper makes of the data,
\* unchanged, and beside them only the four context keys that the mapper's
\* result lacks
C16_ContextFillsGapsOfMapped ==
    mapio.op = "enhance_extraction_with_context" =>
        IF mapio.context_data = NoContext THEN mapio.result = DataDict
        ELSE LET mapped == map_extracted_data(mapio.data, DataType, mapio.context_data)
             IN  /\ \A field \in DOMAIN mapped :
                        /\ field \in DOMAIN mapio.result
                        /\ mapio.result[field] = mapped[field]
                 /\ \A field \in DOMAIN mapio.result \ DOMAIN mapped :
                        /\ field \in ContextKeys
                        /\ field = "deceasedName" =>
                               mapio.result[field].value = mapio.context_data.deceasedName
                        /\ field = "relationshipToDeceased" =>
                               mapio.result[field].value
                                   = mapio.context_data.relationshipToDeceased

\* C16 witness: the data holds a deceasedLastName and no first name, the
\* context names the deceased; the last name is the extracted one and the
\* first name comes from the context
C16_Witness ==
    /\ mapio.op = "enhance_extraction_with_context"
    /\ mapio.context_data.deceasedName = "Brian Hughes"
    /\ "deceasedLastName" \in DOMAIN DataDict
    /\ "deceasedFirstName" \in DOMAIN mapio.result
    /\ mapio.result["deceasedLastName"] = DataDict["deceasedLastName"]
    /\ mapio.result["deceasedFirstName"].reasoning = "Split from deceased name in context"

-----------------------------------------------------------------------------
(* C17: a written date of death through extract_form_data *)

\* C17: for a document detected as a death certificate, the field dateOfDeath
\* with the value "Seventeenth June 2025" comes out of normalize_fields and
\* process_data_object as deceasedDateOfDeath with the value "17/06/2025" and
\* the original_value "Seventeenth June 2025"
C17_WrittenDateOfDeath ==
    /\ mapio.op = "extract_form_data"
    /\ mapio.document_type = "death_certificate"
    /\ "dateOfDeath" \in DOMAIN DataDict
    => /\ ~mapio.raised
       /\ "deceasedDateOfDeath" \in DOMAIN mapio.final
       /\ mapio.final["deceasedDateOfDeath"].value = "17/06/2025"
       /\ "original_value" \in DOMAIN mapio.final["deceasedDateOfDeath"]
       /\ mapio.final["deceasedDateOfDeath"].original_value = DataDict["dateOfDeath"].value

-----------------------------------------------------------------------------
(* C18, C19, C20: what normalize_date returns *)

\* s is two digits, a slash, two digits, a slash and four digits
IsDDMMYYYY(s) ==
    /\ Len(s) = 10
    /\ DigitsAt(s, 1, 2) /\ Char(s, 3) = "/"
    /\ DigitsAt(s, 4, 2) /\ Char(s, 6) = "/"
    /\ DigitsAt(s, 7, 4)

\* C18: normalize_date returns, for every string, a string of the form
\* DD/MM/YYYY or the string it was given, exactly as given, and nothing empty
\* for a string that is not empty
C18_FormOrInputNeverEmpty ==
    mapio.op = "normalize_date" =>
        /\ IsDDMMYYYY(mapio.returned) \/ mapio.returned = mapio.date_string
        /\ mapio.date_string # "" => mapio.returned # ""

\* C19 as stated: every string in the form DD/MM/YYYY is returned as it is,
\* so a result in that form is not changed by a second call
C19_IdempotentOnNormalized ==
    mapio.op = "normalize_date" =>
        /\ IsDDMMYYYY(mapio.date_string) => mapio.returned = mapio.date_string
        /\ IsDDMMYYYY(mapio.returned) =>
               normalize_date(mapio.returned, mapio.libc) = mapio.returned

\* the year of a DD/MM/YYYY string is written without a leading zero
YearFrom1000(s) == Char(s, 7) # "0"

\* C19: every string in the form DD/MM/YYYY whose year is 1000 or more is
\* returned as it is, so a result in that form with such a year is not
\* changed by a second call
C19_IdempotentFromYear1000 ==
    mapio.op = "normalize_date" =>
        /\ IsDDMMYYYY(mapio.date_string) /\ YearFrom1000(mapio.date_string) =>
               mapio.returned = mapio.date_string
        /\ IsDDMMYYYY(mapio.returned) /\ YearFrom1000(mapio.returned) =>
               normalize_date(mapio.returned, mapio.libc) = mapio.returned

\* C19 witness: a string in the form that no calendar has, with a year from
\* 1000, has come back as it is
C19_Witness ==
    /\ mapio.op = "normalize_date"
    /\ mapio.date_string = "31/02/2025"
    /\ mapio.returned = "31/02/2025"

\* the call on record was given the day d, the month m and the year y, with
\* the separator s between them
Given(d, s, m, y) == mapio.date_string = d \o s \o m \o s \o y

\* a date as normalize_date writes it
Written(day, month, year) == Pad2(day) \o "/" \o Pad2(month) \o "/" \o year

\* C20 as stated: of a numeric date D/M/YY the year yy comes back as 1900 + yy
\* when yy > 50 and as 2000 + yy otherwise, and a year of four digits comes
\* back as given
C20_TwoDigitYearsExpanded ==
    mapio.op = "normalize_date" =>
        \A d \in DayTexts, s \in Separators, m \in MonthTexts, y \in YearTexts :
            Given(d, s, m, y) =>
                mapio.returned =
                    Written(int(d), int(m),
                            IF Len(y) = 4 THEN y
                            ELSE IF int(y) > 50 THEN str(1900 + int(y))
                            ELSE str(2000 + int(y)))

\* C20: the same for the years of two digits, and a year of four digits that
\* is 1000 or more comes back as given
C20_TwoDigitYearsExpandedFrom1000 ==
    mapio.op = "normalize_date" =>
        \A d \in DayTexts, s \in Separators, m \in MonthTexts, y \in YearTexts :
            Given(d, s, m, y) /\ (Len(y) = 2 \/ Char(y, 1) # "0") =>
                mapio.returned =
                    Written(int(d), int(m),
                            IF Len(y) = 4 THEN y
                            ELSE IF int(y) > 50 THEN str(1900 + int(y))
                            ELSE str(2000 + int(y)))

\* C20 witness: 17/06/85 has come back as 17/06/1985
C20_Witness ==
    /\ mapio.op = "normalize_date"
    /\ Given("17", "/", "06", "85")
    /\ mapio.returned = "17/06/1985"

-----------------------------------------------------------------------------
(* C21: the written dates of the two tables *)

\* each written date the calls are given, with the date the tables give it
WrittenByTable ==
    {<<WrittenDate(dn, mn, year, case),
       Written(day_names[dn][2], month_names[mn][2], year)>> :
        dn \in 1..Len(day_names), mn \in 1..Len(month_names),
        year \in WrittenYears, case \in LetterCases}

\* C21: for every entry of the day table, every entry of the month table and
\* every year of four digits, normalize_date of "<day> <month> <year>", in any
\* letter case, returns the day number and the month number of the tables,
\* each in two digits, and the year: DD/MM/YYYY
C21_WrittenDatesByTable ==
    mapio.op = "normalize_date" /\ mapio.date_string \in WrittenDates =>
        <<mapio.date_string, mapio.returned>> \in WrittenByTable

\* C21 witness: a hyphenated day and an abbreviated month in capitals have
\* come back as their numbers, and "Seventeenth June 2025" can be given
C21_Witness ==
    /\ mapio.op = "normalize_date"
    /\ mapio.date_string = "TWENTY-FIRST SEPT 2025"
    /\ mapio.returned = "21/09/2025"
    /\ "Seventeenth June 2025" \in WrittenDates

-----------------------------------------------------------------------------
(* C22, C27: what process_data_object rewrites, and where *)

\* the value of a field of the call on record as normalize_date returns it
NormalizedOf(field) == normalize_date(mapio.data[field].value, mapio.libc)

\* the field is a dict that process_data_object takes for a date, and
\* normalize_date does not return its value as it is
ToRewrite(field) ==
    /\ mapio.data[field].kind = "dict"
    /\ IsDateField(field)
    /\ NormalizedOf(field) # mapio.data[field].value

\* the record is the field of the call on record rewritten: the normalized
\* value, the value it had as original_value, and its reasoning with a note
\* after it
IsRewritten(record, field) ==
    /\ record.value = NormalizedOf(field)
    /\ "original_value" \in DOMAIN record
    /\ record.original_value = mapio.data[field].value
    /\ record.reasoning # Absent
    /\ mapio.data[field].reasoning # Absent
    /\ startswith(record.reasoning, mapio.data[field].reasoning)
    /\ Len(record.reasoning) > Len(mapio.data[field].reasoning)

-----------------------------------------------------------------------------
(* C23: the shape of one run of the workflow *)

\* the steps of the workflow: Routing leads to the tool node and calls no
\* tool, the tool node runs the selected tool once and leads to Finalizing,
\* Finalizing ends the run
OneStepEach ==
    /\ pc = "routing" => pc' = "tool" /\ calls' = calls
    /\ pc = "tool" =>
          /\ pc' = "finalizing"
          /\ Len(calls') = Len(calls) + 1
          /\ SubSeq(calls', 1, Len(calls)) = calls
          /\ calls'[Len(calls')].phase = "selected"
          /\ calls'[Len(calls')].tool = state.selected_tool
    /\ pc = "finalizing" =>
          /\ pc' = "done"
          /\ SubSeq(calls', 1, Len(calls)) = calls
          /\ \A i \in (Len(calls) + 1)..Len(calls') : calls'[i].phase = "fallback"
    /\ pc = "done" => pc' = "replied" /\ calls' = calls

\* no tool is run twice by the workflow, and none after one that succeeded
OncePerTool ==
    /\ Len(WorkflowCalls) <= 3
    /\ \A i, j \in 1..Len(WorkflowCalls) :
           i # j => WorkflowCalls[i].tool # WorkflowCalls[j].tool
    /\ \A i \in 1..Len(WorkflowCalls) :
           Succeeded(WorkflowCalls[i]) => i = Len(WorkflowCalls)

\* the node the run is at can be run
NodeCanRun ==
    /\ pc = "routing" => ENABLED Route
    /\ pc = "tool" => ENABLED ExecTool
    /\ pc = "finalizing" => ENABLED Finalize

\* C23: every run of the workflow ends, after one Routing step, one run of
\* the selected tool and one Finalizing step in this order; the workflow runs
\* each of the three tools at most once and runs no tool after one succeeded
C23_OneRouteOneToolOneFinalize ==
    /\ [][OneStepEach]_vars
    /\ []OncePerTool
    /\ []NodeCanRun
    /\ (pc = "routing") ~> (pc = "done")

\* C23 witness: a run has ended with the third tool called, the two before
\* it failed and the third succeeded
C23_Witness ==
    /\ pc = "done"
    /\ Len(WorkflowCalls) = 3
    /\ ~Succeeded(WorkflowCalls[1])
    /\ ~Succeeded(WorkflowCalls[2])
    /\ Succeeded(WorkflowCalls[3])
    /\ WorkflowCalls[1].phase = "selected"

-----------------------------------------------------------------------------
(* C24: the relevance gate of use_rag_source *)

\* the scored search of the call returned no chunk, or a best chunk at a
\* distance above the poor-match threshold
PoorMatch(c) ==
    /\ c.tool = "rag_tool"
    /\ c.scored
    /\ (c.scores = <<>> \/ c.scores[1] > poor_match_threshold)

\* the call made no completion, set no response and failed
FailedOutright(c) ==
    /\ c.llm = "not_called"
    /\ c.post.response = Absent
    /\ c.post.tool_failed

\* the gate in use_rag_source of ai_agent/main.py, the module of agent_chat
GateOfAgentChat ==
    req.handler = "agent_chat" =>
        \A i \in 1..Len(calls) : PoorMatch(calls[i]) => FailedOutright(calls[i])

\* C24: a call of use_rag_source, in either module, whose best retrieved chunk
\* is at a distance above 0.45, or whose search returns no chunk, makes no
\* completion call, sets no response and returns tool_failed = true
C24_PoorMatchFailsOutright ==
    \A i \in 1..Len(calls) : PoorMatch(calls[i]) => FailedOutright(calls[i])

-----------------------------------------------------------------------------
(* C25: field names of the schema *)

\* C25: every field name of the form schema is declared once in all its
\* sections, and the sequence get_field_mapping returns holds no field name
\* twice
C25_FieldNamesUnique ==
    /\ \A i, j \in 1..Len(DeclaredNames) :
           i # j => DeclaredNames[i] # DeclaredNames[j]
    /\ mapio.op = "get_field_mapping" =>
           \A i, j \in 1..Len(mapio.matches) :
               i # j => mapio.matches[i][1] # mapio.matches[j][1]

\* a call of get_field_mapping has returned a field name twice
ReturnedTwice ==
    /\ mapio.op = "get_field_mapping"
    /\ \E i, j \in 1..Len(mapio.matches) :
           i # j /\ mapio.matches[i][1] = mapio.matches[j][1]

-----------------------------------------------------------------------------
(* C26: the web search asked for in the request to agent_chat *)

\* C26: when the request to agent_chat sets use_web_search and a web-search
\* credential is configured, the first tool the workflow runs is
\* web_search_tool, whatever the classification call of the router returns
C26_RequestedWebSearchRunsFirst ==
    /\ req.handler = "agent_chat"
    /\ req.use_web_search
    /\ tavily_key
    /\ calls # <<>>
    => calls[1].tool = "web_search_tool"

-----------------------------------------------------------------------------
(* C28: web searches of one request to chat *)

\* the places in the invocation log of the request at which web search ran
WebSearchCalls == {i \in 1..Len(calls) : calls[i].tool = "web_search_tool"}

\* C28: the chat handler of app/main.py runs the web-search tool at most once
\* for one request, the attempt it makes before the workflow counted in
C28_WebSearchAtMostOnce ==
    req.handler = "chat" => Cardinality(WebSearchCalls) <= 1

-----------------------------------------------------------------------------
(* C29: the chunks use_rag_source of ai_agent/main.py answers from *)

\* the scored search of the call returned and its first chunk passed the gate
GatePassed(c) ==
    /\ c.tool = "rag_tool"
    /\ c.scored
    /\ c.scores # <<>>
    /\ c.scores[1] <= poor_match_threshold

\* the ranks of the retrieved chunks at a distance under 0.5, in order
UnderThreshold(scores) ==
    SelectSeq([i \in 1..Len(scores) |-> i], LAMBDA i : scores[i] < threshold)

\* C29: when the scored search of use_rag_source returns and the first chunk
\* is at a distance of 0.45 or less, the chunks the context is built from are
\* exactly the retrieved chunks at a distance under 0.5: there is at least
\* one, the first chunk is among them, and the top match is never put in
\* their place
C29_ContextIsChunksUnderThreshold ==
    req.handler = "agent_chat" =>
        \A i \in 1..Len(calls) :
            GatePassed(calls[i]) =>
                /\ calls[i].docs = UnderThreshold(calls[i].scores)
                /\ calls[i].docs # <<>>
                /\ calls[i].docs[1] = 1

\* C29 witness: a call passed the gate with its first chunk at 0.45, left out
\* the second chunk at 0.5 and was answered from the first
C29_Witness ==
    /\ req.handler = "agent_chat"
    /\ \E i \in 1..Len(calls) :
           /\ GatePassed(calls[i])
           /\ calls[i].scores = <<45, 50>>
           /\ calls[i].docs = <<1>>
           /\ calls[i].llm = "returned"

-----------------------------------------------------------------------------
(* The messages a tool passes to its completion call *)

\* the longest conversation history a request comes with
MaxTurns == 11

\* the number of turns of the history a tool passes on: conversation_history[-10:]
\* in use_rag_source, conversation_history[-5:] in the other two
history_limit(tool) == IF tool = "rag_tool" THEN 10 ELSE 5

\* the system prompt of the tool: its opening words and, for the tools that
\* have one, the context built from the chunks or search results
system_prompt(tool, context) ==
    IF tool = "rag_tool"
    THEN "Use ONLY the following information from policy documents to answer the user's question: "
             \o context
    ELSE IF tool = "web_search_tool"
    THEN "Use the following information from web search to answer the user's question: "
             \o context
    ELSE "You are a helpful assistant for the Department for Work and Pensions (DWP)"

\* the first turns of the history in place of the last ones
recent_history_oldest(conversation_history, limit) ==
    IF Len(conversation_history) > limit
    THEN SubSeq(conversation_history, 1, limit)
    ELSE conversation_history

\* conversation_history[-limit:] if len(conversation_history) > limit else
\* conversation_history
recent_history(conversation_history, limit) ==
    IF Len(conversation_history) > limit
    THEN SubSeq(conversation_history, Len(conversation_history) - limit + 1,
                Len(conversation_history))
    ELSE conversation_history

\* the messages with the query appended whatever the last turn is
WithQuery_always(listed, query) ==
    Append(listed, [role |-> "user", content |-> query])

\* "if not messages or messages[-1]["role"] != "user": messages.append(...)"
WithQuery(listed, query) ==
    IF listed = <<>> \/ listed[Len(listed)].role # "user"
    THEN Append(listed, [role |-> "user", content |-> query])
    ELSE listed

\* the list the tool passes to llm.invoke
messages(tool, query, conversation_history, context) ==
    WithQuery(<<[role |-> "system", content |-> system_prompt(tool, context)]>>
                  \o recent_history(conversation_history, history_limit(tool)),
              query)

\* turn k of a conversation
Turn(role, k) == [role |-> role, content |-> "turn " \o str(k)]

\* a conversation of the given length in which first speaks first, the two
\* sides take turns, and the last turn has the role last
Conversation(length, first, last) ==
    [k \in 1..length |->
        Turn(IF k = length THEN last
             ELSE IF k % 2 = 1 THEN first
             ELSE IF first = "user" THEN "assistant" ELSE "user", k)]

Conversations ==
    {Conversation(length, first, last) :
        length \in 0..MaxTurns, first \in {"user", "assistant"},
        last \in {"user", "assistant", "system"}}

Queries == {"What is a Funeral Expenses Payment?", "2+2"}

PromptContexts == {"Document: policy.pdf", "Source: gov.uk"}

NoMessagesCall ==
    [op |-> "none", tool |-> "", query |-> "", conversation_history |-> <<>>,
     context |-> "", messages |-> <<>>]

InitMessages ==
    /\ pc = "idle"
    /\ req = [handler |-> "agent_chat", use_web_search |-> FALSE]
    /\ state = initial_state
    /\ rag_db = "None"
    /\ tavily_key = FALSE
    /\ router_out = NoRouterCall
    /\ calls = <<>>
    /\ reply = NoReply
    /\ mapio = NoMessagesCall

\* a tool has reached its completion call with the messages it built
InvokeLlm ==
    /\ mapio.op = "none"
    /\ \E tool \in ToolNames, query \in Queries,
          conversation_history \in Conversations, context \in PromptContexts :
        mapio' = [op |-> "llm.invoke", tool |-> tool, query |-> query,
                  conversation_history |-> conversation_history,
                  context |-> IF tool = "direct_llm_tool" THEN "" ELSE context,
                  messages |-> messages(tool, query, conversation_history,
                                        context)]
    /\ UNCHANGED wfvars

\* the completion has returned; the next call builds its messages anew
MessagesReturn ==
    /\ mapio.op # "none"
    /\ mapio' = NoMessagesCall
    /\ UNCHANGED wfvars

NextMessages == InvokeLlm \/ MessagesReturn

SpecMessages == InitMessages /\ [][NextMessages]_vars

-----------------------------------------------------------------------------
(* C30: the shape of the messages *)

\* the turns of the history of the call on record that the tool includes
Included ==
    LET h == mapio.conversation_history
        n == Min(Len(h), history_limit(mapio.tool))
    IN  [k \in 1..n |-> h[Len(h) - n + k]]

=============================================================================
